---------------------------- MODULE Spec2Model ----------------------------
(***************************************************************************)
(* A model of Chat::ChatManager (src/include/chat/chat_manager.hpp): the   *)
(* chat vector, the name index, the recency index, the current selection,  *)
(* the job map and the suffix counter, with one action per public          *)
(* operation.  Strings are sequences of character codes, so that           *)
(* concatenation, length and operator< are what std::string does.          *)
(* Positions are 0-based as in the code: m_chats[i] is At(chats, i).       *)
(***************************************************************************)
EXTENDS Integers, Sequences, FiniteSets, TLC

VARIABLES
    m_chats,                  \* std::vector<ChatHistory>
    m_chatNameToIndex,        \* std::unordered_map<std::string, size_t>
    m_sortedIndices,          \* std::set<ChatIndex>
    m_currentChatName,        \* std::optional<std::string>: {} or {name}
    m_currentChatIndex,       \* size_t
    m_chatInferenceJobIdMap,  \* std::unordered_map<int, int>
    counter,                  \* int counter
    disk,                     \* persistence backend: names with a saved transcript
    kvFiles,                  \* persistence backend: names with a key-value cache file
    tracked,                  \* whether the model follows the backend's content
    crashed,                  \* the process was terminated by undefined behaviour
    now,                      \* std::time(nullptr)
    opCount,                  \* the number of operations that have returned
    jobGhost,                 \* history: which chat each job id was last given to
    lastOp,                   \* the operation that returned last, its argument and result
    m_mutex,                  \* std::shared_mutex: {} or the operation holding it exclusively
    thread,                   \* the write operation in progress on a second thread: {} or its record
    pcSwitch,                 \* a switchToChat in progress between its find and its assignments
    loadTask,                 \* the task of loadChatsAsync and who launched it: {} or its record
    pcCallback,               \* a chatStreamingCallback in progress that holds its copy of the chat
    m_clientType,             \* ToolManager: ClientType, "SSE" or "STDIO"
    m_sseClient,              \* ToolManager: {} or the endpoint the sse_client was built with
    m_stdioClient,            \* ToolManager: {} or the command the stdio_client was built with
    m_sseHost,
    m_ssePort,
    m_stdioCommand,
    m_stdioEnvVars,
    m_availableTools,         \* ToolManager: std::vector<mcp::tool>
    m_initialized,            \* ToolManager: bool
    lastTool                  \* the ToolManager operation that returned last

chatVars == <<m_chats, m_chatNameToIndex, m_sortedIndices, m_currentChatName,
              m_currentChatIndex, m_chatInferenceJobIdMap, counter, disk, kvFiles,
              tracked, crashed, now, opCount, jobGhost, lastOp>>

threadVars == <<m_mutex, thread, pcSwitch, loadTask, pcCallback>>

toolVars == <<m_clientType, m_sseClient, m_stdioClient, m_sseHost, m_ssePort,
              m_stdioCommand, m_stdioEnvVars, m_availableTools, m_initialized,
              lastTool>>

vars == <<chatVars, threadVars, toolVars>>

---------------------------------------------------------------------------
\* Bounds of the model.
MaxChats == 3
MaxTime == 2
MaxMsgs == 1
MaxCounter == 3
MaxJobId == 2
MaxOps == 4
MaxCalls == 2
MaxBlocks == 2
MaxText == 3
MaxEntries == 3
MaxThread == 2
MaxTokens == 4

\* validateChatName: name.length() > 256 is invalid.
MaxNameLen == 256

---------------------------------------------------------------------------
\* Strings.

\* "New_Chat"
DEFAULT_CHAT_NAME == <<78, 101, 119, 95, 67, 104, 97, 116>>

NameA == <<65>>
NameB == <<66>>
EmptyName == <<>>
\* a name of 254 characters: valid by itself, 258 characters with " (1)"
LongName == [i \in 1..(MaxNameLen - 2) |-> 76]

\* std::string::operator< : lexicographic on the character codes
StrLess(a, b) ==
    LET common == IF Len(a) < Len(b) THEN Len(a) ELSE Len(b)
        differ == {i \in 1..common : a[i] # b[i]}
    IN IF differ = {} THEN Len(a) < Len(b)
       ELSE LET first == CHOOSE i \in differ : \A j \in differ : i <= j
            IN a[first] < b[first]

\* std::to_string(int) for n >= 0: the decimal digits
RECURSIVE to_string(_)
to_string(n) ==
    IF n < 10 THEN <<48 + n>>
    ELSE to_string(n \div 10) \o <<48 + (n % 10)>>

\* name + " (" + std::to_string(c) + ")"
Suffixed(name, c) == name \o <<32, 40>> \o to_string(c) \o <<41>>

validateChatName(name) == ~(name = <<>> \/ Len(name) > MaxNameLen)

---------------------------------------------------------------------------
\* ChatHistory, Message, ChatIndex.

ChatHistory(id, lastModified, name, messages) ==
    [id |-> id, lastModified |-> lastModified, name |-> name, messages |-> messages]

Message(id, role, content, modelName) ==
    [id |-> id, role |-> role, content |-> content, modelName |-> modelName]

ChatIndex(lastModified, index, name) ==
    [lastModified |-> lastModified, index |-> index, name |-> name]

\* ChatIndex::operator< : lastModified descending, then name ascending
ChatIndexLess(a, b) ==
    \/ a.lastModified > b.lastModified
    \/ (a.lastModified = b.lastModified /\ StrLess(a.name, b.name))

\* the equivalence std::set<ChatIndex> uses for its keys: index is not compared
ChatIndexEquiv(a, b) == ~ChatIndexLess(a, b) /\ ~ChatIndexLess(b, a)

\* std::set::insert: nothing is inserted when an equivalent key is present
SetInsert(S, e) == IF \E x \in S : ChatIndexEquiv(x, e) THEN S ELSE S \cup {e}

\* std::set::erase(key): removes the element equivalent to the key, if any
SetErase(S, e) == {x \in S : ~ChatIndexEquiv(x, e)}

\* iteration order of the std::set: ascending by operator<
RECURSIVE SetOrder(_)
SetOrder(S) ==
    IF S = {} THEN <<>>
    ELSE LET first == CHOOSE x \in S : \A y \in S \ {x} : ChatIndexLess(x, y)
         IN <<first>> \o SetOrder(S \ {first})

At(chats, i) == chats[i + 1]

RemoveAt(seq, i) == SubSeq(seq, 1, i) \o SubSeq(seq, i + 2, Len(seq))

\* std::find_if over m_chats by name: the first position with that name, or -1 (end())
FindByName(chats, name) ==
    IF \E i \in 0..(Len(chats) - 1) : At(chats, i).name = name
    THEN CHOOSE i \in 0..(Len(chats) - 1) :
            /\ At(chats, i).name = name
            /\ \A j \in 0..(i - 1) : At(chats, j).name # name
    ELSE -1

---------------------------------------------------------------------------
\* The store as one value, so that a handler is a function of it.

Store ==
    [m_chats |-> m_chats, m_chatNameToIndex |-> m_chatNameToIndex,
     m_sortedIndices |-> m_sortedIndices, m_currentChatName |-> m_currentChatName,
     m_currentChatIndex |-> m_currentChatIndex,
     m_chatInferenceJobIdMap |-> m_chatInferenceJobIdMap, counter |-> counter,
     disk |-> disk, kvFiles |-> kvFiles, tracked |-> tracked, crashed |-> crashed,
     calls |-> <<>>]

Becomes(s) ==
    /\ m_chats' = s.m_chats
    /\ m_chatNameToIndex' = s.m_chatNameToIndex
    /\ m_sortedIndices' = s.m_sortedIndices
    /\ m_currentChatName' = s.m_currentChatName
    /\ m_currentChatIndex' = s.m_currentChatIndex
    /\ m_chatInferenceJobIdMap' = s.m_chatInferenceJobIdMap
    /\ counter' = s.counter
    /\ disk' = s.disk
    /\ kvFiles' = s.kvFiles
    /\ tracked' = s.tracked
    /\ crashed' = s.crashed

\* map[key] = value on an unordered_map
MapPut(map, key, value) ==
    [k \in DOMAIN map \cup {key} |-> IF k = key THEN value ELSE map[k]]

MapErase(map, key) == [k \in DOMAIN map \ {key} |-> map[k]]

---------------------------------------------------------------------------
\* The persistence backend (IChatPersistence).  Each call either succeeds and
\* has its effect, or fails and has none; ok is the call's result.  The
\* backend's content is followed only in the specifications that are about it
\* (tracked); in the others a call has its result and the content is left out.

\* s.calls is the log of the calls the running operation has made on the backend.

Call(call, name, ok) == [call |-> call, name |-> name, ok |-> ok]

Logged(s, call, name, ok) == [s EXCEPT !.calls = Append(@, Call(call, name, ok))]

P_saveChat(s, chat, ok) ==
    LET s1 == Logged(s, "saveChat", chat.name, ok)
    IN IF ok /\ s.tracked THEN [s1 EXCEPT !.disk = @ \cup {chat.name}] ELSE s1

P_deleteChat(s, name, ok) ==
    LET s1 == Logged(s, "deleteChat", name, ok)
    IN IF ok /\ s.tracked THEN [s1 EXCEPT !.disk = @ \ {name}] ELSE s1

P_renameKvChat(s, oldName, newName, ok) ==
    LET s1 == Logged(s, "renameKvChat", oldName, ok)
    IN IF ok /\ s.tracked /\ oldName \in s.kvFiles
       THEN [s1 EXCEPT !.kvFiles = (@ \ {oldName}) \cup {newName}]
       ELSE s1

P_deleteKvChat(s, name, ok) ==
    LET s1 == Logged(s, "deleteKvChat", name, ok)
    IN IF ok /\ s.tracked THEN [s1 EXCEPT !.kvFiles = @ \ {name}] ELSE s1

---------------------------------------------------------------------------
\* Private helpers of ChatManager.

\* a switchToChat that sets the current name and leaves the current index
switchToChat_NameOnly(s, name) ==
    IF name \notin DOMAIN s.m_chatNameToIndex
    THEN [s |-> s, ret |-> FALSE]
    ELSE [s |-> [s EXCEPT !.m_currentChatName = {name}],
          ret |-> TRUE]

\* switchToChat, as a function of the store: [s, ret]
switchToChat(s, name) ==
    IF name \notin DOMAIN s.m_chatNameToIndex
    THEN [s |-> s, ret |-> FALSE]
    ELSE [s |-> [s EXCEPT !.m_currentChatName = {name},
                          !.m_currentChatIndex = s.m_chatNameToIndex[name]],
          ret |-> TRUE]

updateChatTimestamp(s, chatIndex, newTimestamp) ==
    LET old == At(s.m_chats, chatIndex)
        erased == SetErase(s.m_sortedIndices,
                           ChatIndex(old.lastModified, chatIndex, old.name))
    IN [s EXCEPT
          !.m_chats[chatIndex + 1].lastModified = newTimestamp,
          !.m_sortedIndices =
              SetInsert(erased, ChatIndex(newTimestamp, chatIndex, old.name))]

updateIndicesAfterDeletion(s, deletedIndex) ==
    [s EXCEPT
       !.m_chatNameToIndex =
           [n \in DOMAIN @ |-> IF @[n] > deletedIndex THEN @[n] - 1 ELSE @[n]],
       !.m_sortedIndices =
           {IF x.index > deletedIndex
            THEN ChatIndex(x.lastModified, x.index - 1, x.name)
            ELSE x : x \in {y \in @ : y.index # deletedIndex}}]

\* a createDefaultChat that leaves the current name and index as they were
createDefaultChat_Unselected(s, currentTime, saveOk) ==
    LET defaultChat == ChatHistory(1, currentTime, DEFAULT_CHAT_NAME, <<>>)
        s1 == [s EXCEPT
                 !.m_chats = Append(@, defaultChat),
                 !.m_chatNameToIndex = MapPut(@, DEFAULT_CHAT_NAME, 0),
                 !.m_sortedIndices =
                     SetInsert(@, ChatIndex(currentTime, 0, DEFAULT_CHAT_NAME))]
        s2 == P_saveChat(s1, defaultChat, saveOk)
    IN s2

\* createDefaultChat; saveOk is the result of the save it starts
createDefaultChat(s, currentTime, saveOk) ==
    LET defaultChat == ChatHistory(1, currentTime, DEFAULT_CHAT_NAME, <<>>)
        s1 == [s EXCEPT
                 !.m_chats = Append(@, defaultChat),
                 !.m_chatNameToIndex = MapPut(@, DEFAULT_CHAT_NAME, 0),
                 !.m_sortedIndices =
                     SetInsert(@, ChatIndex(currentTime, 0, DEFAULT_CHAT_NAME))]
        s2 == P_saveChat(s1, defaultChat, saveOk)
    IN [s2 EXCEPT !.m_currentChatName = {DEFAULT_CHAT_NAME},
                  !.m_currentChatIndex = 0]


\* loadChatsAsync, run to completion (the std::async future is a temporary whose
\* destructor joins the task): chats is what loadAllChats() returned
loadChatsAsync(s, chats, currentTime, saveOk) ==
    LET s1 == [s EXCEPT
                 !.m_chats = chats,
                 !.m_chatNameToIndex =
                     [n \in {chats[i].name : i \in DOMAIN chats} |->
                        (CHOOSE i \in DOMAIN chats :
                            /\ chats[i].name = n
                            /\ \A j \in DOMAIN chats : chats[j].name = n => j <= i) - 1],
                 !.m_sortedIndices =
                     {ChatIndex(chats[i].lastModified, i - 1, chats[i].name) :
                        i \in DOMAIN chats}]
        s2 == IF s1.m_chats = <<>>
              THEN createDefaultChat(s1, currentTime, saveOk)
              ELSE IF s1.m_currentChatName = {}
              THEN LET mostRecent == SetOrder(s1.m_sortedIndices)[1]
                   IN [s1 EXCEPT !.m_currentChatIndex = mostRecent.index,
                                 !.m_currentChatName = {mostRecent.name}]
              ELSE s1
    IN [s2 EXCEPT !.counter = Cardinality(s2.m_sortedIndices)]

---------------------------------------------------------------------------
\* Public operations, as functions of the store: [s, ok, out].

Result(s, ok, out) == [s |-> s, ok |-> ok, out |-> out]

\* the while loop of createNewChat over the member counter
RECURSIVE createLoop(_, _, _, _)
createLoop(index, name, newName, c) ==
    IF newName \in DOMAIN index
    THEN createLoop(index, name, Suffixed(name, c), c + 1)
    ELSE [newName |-> newName, counter |-> c]

createNewChat(s, name, newTimestamp, saveOk) ==
    LET r == createLoop(s.m_chatNameToIndex, name, name, s.counter)
        s0 == [s EXCEPT !.counter = r.counter]
    IN IF ~validateChatName(r.newName)
       THEN Result(s0, FALSE, {})
       ELSE LET newChat == ChatHistory(r.counter + newTimestamp, newTimestamp,
                                       r.newName, <<>>)
                newIndex == Len(s.m_chats)
                s1 == [s0 EXCEPT
                         !.m_chats = Append(@, newChat),
                         !.m_chatNameToIndex = MapPut(@, r.newName, newIndex),
                         !.m_sortedIndices =
                             SetInsert(@, ChatIndex(newTimestamp, newIndex, r.newName))]
                s2 == switchToChat(s1, r.newName).s
            IN Result(P_saveChat(s2, newChat, saveOk), TRUE, {r.newName})

\* the while loop of renameCurrentChat over its local counter
RECURSIVE renameLoop(_, _, _, _)
renameLoop(index, newName, uniqueName, c) ==
    IF uniqueName \in DOMAIN index
    THEN renameLoop(index, newName, Suffixed(newName, c), c + 1)
    ELSE uniqueName

renameCurrentChat(s, newName, currentTime, saveOk, delOk, kvOk) ==
    IF ~validateChatName(newName) THEN Result(s, FALSE, {})
    ELSE IF s.m_currentChatName = {} THEN Result(s, FALSE, {})
    ELSE LET uniqueName == renameLoop(s.m_chatNameToIndex, newName, newName, 1)
             currentIdx == s.m_currentChatIndex
         IN IF currentIdx >= Len(s.m_chats) THEN Result(s, FALSE, {})
            ELSE LET oldName == At(s.m_chats, currentIdx).name
                     s1 == [s EXCEPT
                              !.m_chats[currentIdx + 1].name = uniqueName,
                              !.m_chats[currentIdx + 1].lastModified = currentTime,
                              !.m_chatNameToIndex =
                                  MapPut(MapErase(@, oldName), uniqueName, currentIdx),
                              !.m_currentChatName = {uniqueName}]
                     s2 == P_saveChat(s1, At(s1.m_chats, currentIdx), saveOk)
                     s3 == IF saveOk
                           THEN P_renameKvChat(P_deleteChat(s2, oldName, delOk),
                                               oldName, uniqueName, kvOk)
                           ELSE s2
                 IN Result(s3, saveOk, {uniqueName})

clearCurrentChat(s, currentTime, saveOk) ==
    IF s.m_currentChatName = {} \/ s.m_currentChatIndex >= Len(s.m_chats)
    THEN Result(s, FALSE, {})
    ELSE LET s1 == [s EXCEPT
                      !.m_chats[s.m_currentChatIndex + 1].messages = <<>>,
                      !.m_chats[s.m_currentChatIndex + 1].lastModified = currentTime]
         IN Result(P_saveChat(s1, At(s1.m_chats, s.m_currentChatIndex), saveOk),
                   saveOk, {})

addMessageToCurrentChat(s, message, newTimestamp, saveOk) ==
    IF s.m_currentChatName = {} \/ s.m_currentChatIndex >= Len(s.m_chats)
    THEN Result(s, FALSE, {})
    ELSE LET s1 == updateChatTimestamp(s, s.m_currentChatIndex, newTimestamp)
             s2 == [s1 EXCEPT
                      !.m_chats[s.m_currentChatIndex + 1].messages = Append(@, message)]
         IN Result(P_saveChat(s2, At(s2.m_chats, s.m_currentChatIndex), saveOk),
                   TRUE, {})

updateChat(s, chatName, chat) ==
    IF chatName \notin DOMAIN s.m_chatNameToIndex THEN Result(s, FALSE, {})
    ELSE Result([s EXCEPT !.m_chats[s.m_chatNameToIndex[chatName] + 1] = chat],
                TRUE, {})


\* a string read through a dangling iterator that matches no chat name
GarbageName == <<0>>

\* in place of a string: the read terminated the process
Crash == <<-1>>

\* What reading *m_sortedIndices.begin() may do when the set is empty
\* (begin() == end(), the read is undefined): terminate the process (Crash), or
\* yield some string, the name of a chat or garbage.
UndefinedReads(s) == {Crash, GarbageName} \cup DOMAIN s.m_chatNameToIndex

\* a deleteChat that restores the store when the backend fails to delete the
\* transcript
deleteChat_Rollback(s, name, currentTime, saveOk, delOk, kvOk, ub) ==
    IF name \notin DOMAIN s.m_chatNameToIndex THEN Result(s, FALSE, {})
    ELSE
      LET indexToRemove == s.m_chatNameToIndex[name]
      IN IF indexToRemove >= Len(s.m_chats)
         THEN Result([s EXCEPT !.crashed = TRUE], FALSE, {})
         ELSE
           LET timestamp == At(s.m_chats, indexToRemove).lastModified
               s1 == [s EXCEPT
                        !.m_sortedIndices =
                            SetErase(@, ChatIndex(timestamp, indexToRemove, name)),
                        !.m_chats = RemoveAt(@, indexToRemove),
                        !.m_chatNameToIndex = MapErase(@, name)]
               s2 == updateIndicesAfterDeletion(s1, indexToRemove)
               mostRecent == IF s2.m_sortedIndices # {}
                             THEN SetOrder(s2.m_sortedIndices)[1].name
                             ELSE ub
               s3 == IF s2.m_chats = <<>>
                     THEN createDefaultChat(s2, currentTime, saveOk)
                     ELSE IF s2.m_currentChatIndex = indexToRemove
                     THEN IF mostRecent = Crash
                          THEN [s2 EXCEPT !.crashed = TRUE]
                          ELSE switchToChat(s2, mostRecent).s
                     ELSE IF s2.m_currentChatIndex > indexToRemove
                     THEN [s2 EXCEPT !.m_currentChatIndex = @ - 1]
                     ELSE s2
           IN IF s3.crashed THEN Result(s3, FALSE, {})
              ELSE IF ~delOk THEN Result(P_deleteChat(s, name, FALSE), FALSE, {})
              ELSE Result(P_deleteKvChat(P_deleteChat(s3, name, TRUE), name, kvOk),
                          kvOk, {})

\* deleteChat; ub is the outcome of the undefined read, should it happen
deleteChat(s, name, currentTime, saveOk, delOk, kvOk, ub) ==
    IF name \notin DOMAIN s.m_chatNameToIndex THEN Result(s, FALSE, {})
    ELSE
      LET indexToRemove == s.m_chatNameToIndex[name]
      IN IF indexToRemove >= Len(s.m_chats)
         THEN Result([s EXCEPT !.crashed = TRUE], FALSE, {})
         ELSE
           LET timestamp == At(s.m_chats, indexToRemove).lastModified
               s1 == [s EXCEPT
                        !.m_sortedIndices =
                            SetErase(@, ChatIndex(timestamp, indexToRemove, name)),
                        !.m_chats = RemoveAt(@, indexToRemove),
                        !.m_chatNameToIndex = MapErase(@, name)]
               s2 == updateIndicesAfterDeletion(s1, indexToRemove)
               mostRecent == IF s2.m_sortedIndices # {}
                             THEN SetOrder(s2.m_sortedIndices)[1].name
                             ELSE ub
               s3 == IF s2.m_chats = <<>>
                     THEN createDefaultChat(s2, currentTime, saveOk)
                     ELSE IF s2.m_currentChatIndex = indexToRemove
                     THEN IF mostRecent = Crash
                          THEN [s2 EXCEPT !.crashed = TRUE]
                          ELSE switchToChat(s2, mostRecent).s
                     ELSE IF s2.m_currentChatIndex > indexToRemove
                     THEN [s2 EXCEPT !.m_currentChatIndex = @ - 1]
                     ELSE s2
           IN IF s3.crashed THEN Result(s3, FALSE, {})
              ELSE IF ~delOk THEN Result(P_deleteChat(s3, name, FALSE), FALSE, {})
              ELSE Result(P_deleteKvChat(P_deleteChat(s3, name, TRUE), name, kvOk),
                          kvOk, {})

\* deleteMessage(chatName, index)
deleteMessage(s, chatName, index, currentTime) ==
    LET it == FindByName(s.m_chats, chatName)
    IN IF it # -1 /\ index >= 0 /\ index < Len(At(s.m_chats, it).messages)
       THEN Result([s EXCEPT
                      !.m_chats[it + 1].messages = RemoveAt(@, index),
                      !.m_chats[it + 1].lastModified = currentTime], TRUE, {})
       ELSE Result(s, FALSE, {})

addMessage(s, chatName, message, currentTime) ==
    LET it == FindByName(s.m_chats, chatName)
    IN IF it # -1
       THEN Result([s EXCEPT
                      !.m_chats[it + 1].messages = Append(@, message),
                      !.m_chats[it + 1].lastModified = currentTime], TRUE, {})
       ELSE Result(s, FALSE, {})

\* setMessageModelName.  With _index = -1 the code reads it->messages.size()
\* before it tests it != m_chats.end(): for an unknown chat that read is
\* undefined, and ubCrash says whether it terminates the process; when it does
\* not, the later test finds it == end() and nothing is written.
setMessageModelName(s, chatName, index0, modelName, currentTime, ubCrash) ==
    LET it == FindByName(s.m_chats, chatName)
    IN IF it = -1
       THEN IF index0 = -1 /\ ubCrash
            THEN Result([s EXCEPT !.crashed = TRUE], FALSE, {})
            ELSE Result(s, FALSE, {})
       ELSE LET index == IF index0 = -1 THEN Len(At(s.m_chats, it).messages) - 1
                         ELSE index0
            IN IF index >= 0 /\ index < Len(At(s.m_chats, it).messages)
               THEN Result([s EXCEPT
                              !.m_chats[it + 1].messages[index + 1].modelName = modelName,
                              !.m_chats[it + 1].lastModified = currentTime], TRUE, {})
               ELSE Result(s, FALSE, {})

---------------------------------------------------------------------------
\* Job tracking.

\* a setCurrentJobId that records the job at position 0 whatever chat is current
setCurrentJobId_FirstSlot(s, jobId) ==
    Result([s EXCEPT !.m_chatInferenceJobIdMap = MapPut(@, 0, jobId)],
           TRUE, {})

setCurrentJobId(s, jobId) ==
    Result([s EXCEPT !.m_chatInferenceJobIdMap = MapPut(@, s.m_currentChatIndex, jobId)],
           TRUE, {})

\* removeJobId clears the first entry holding jobId in the iteration order of
\* the unordered_map, which is unspecified: chatIndex is any key holding jobId
removeJobId(s, jobId, chatIndex) ==
    IF chatIndex \in DOMAIN s.m_chatInferenceJobIdMap
       /\ s.m_chatInferenceJobIdMap[chatIndex] = jobId
    THEN Result([s EXCEPT !.m_chatInferenceJobIdMap = MapPut(@, chatIndex, -1)], TRUE, {})
    ELSE Result(s, FALSE, {})

\* m_chatInferenceJobIdMap[key] as an rvalue: operator[] inserts a
\* value-initialized int (0) for a missing key and returns it
JobMapSubscript(s, key) ==
    IF key \in DOMAIN s.m_chatInferenceJobIdMap
    THEN [s |-> s, value |-> s.m_chatInferenceJobIdMap[key]]
    ELSE [s |-> [s EXCEPT !.m_chatInferenceJobIdMap = MapPut(@, key, 0)], value |-> 0]

getCurrentJobId(s) == JobMapSubscript(s, s.m_currentChatIndex)

getJobId(s, chatName) ==
    IF chatName \notin DOMAIN s.m_chatNameToIndex
    THEN [s |-> s, value |-> -1]
    ELSE JobMapSubscript(s, s.m_chatNameToIndex[chatName])

\* getChatNameByJobId: the values it may return.  The first matching entry in
\* the unspecified iteration order decides; an entry whose position is outside
\* m_chats makes m_chats[chatIndex] an out-of-bounds read, whose result is any
\* string (GarbageName stands for one that is no chat's name) or a crash.
getChatNameByJobId(s, jobId) ==
    LET hits == {k \in DOMAIN s.m_chatInferenceJobIdMap :
                    s.m_chatInferenceJobIdMap[k] = jobId}
    IN IF hits = {} THEN {EmptyName}
       ELSE UNION {IF k < Len(s.m_chats)
                   THEN {At(s.m_chats, k).name}
                   ELSE {Crash, GarbageName, EmptyName}
                        \cup {s.m_chats[i].name : i \in DOMAIN s.m_chats} : k \in hits}

\* getChats: the chats in the order of m_sortedIndices, each position once
RECURSIVE getChatsFrom(_, _, _)
getChatsFrom(chats, order, seenIndices) ==
    IF order = <<>> THEN <<>>
    ELSE IF Head(order).index \in seenIndices
    THEN getChatsFrom(chats, Tail(order), seenIndices)
    ELSE <<At(chats, Head(order).index)>>
         \o getChatsFrom(chats, Tail(order), seenIndices \cup {Head(order).index})

getChats(s) == getChatsFrom(s.m_chats, SetOrder(s.m_sortedIndices), {})

getCurrentChat(s) ==
    IF s.m_currentChatName = {} \/ s.m_currentChatIndex >= Len(s.m_chats)
    THEN {}
    ELSE {At(s.m_chats, s.m_currentChatIndex)}

\* getChat(name)
getChat(s, name) ==
    LET it == FindByName(s.m_chats, name)
    IN IF it # -1 THEN {At(s.m_chats, it)} ELSE {}

---------------------------------------------------------------------------
\* The two places of the UI that add messages.

\* processInput: the user's message is numbered size + 1 of the current chat
\* and added to it, then the id of the started job is recorded
processInput(s, input, jobId, newTimestamp, saveOk) ==
    IF getCurrentChat(s) = {} THEN Result(s, FALSE, {})
    ELSE LET currentChat == CHOOSE c \in getCurrentChat(s) : TRUE
             userMessage == Message(Len(currentChat.messages) + 1, "user", input, "")
             r == addMessageToCurrentChat(s, userMessage, newTimestamp, saveOk)
         IN setCurrentJobId(r.s, jobId)

\* chatStreamingCallback, chatName being what getChatNameByJobId returned:
\* the partial output replaces the content of a trailing assistant message,
\* or becomes a new assistant message numbered size + 1
\* the callback from the copy chat that getChat(chatName) gave it
streamInto(s, chatName, chat, partialOutput, modelName, currentTime) ==
    IF chat.messages # <<>>
       /\ chat.messages[Len(chat.messages)].role = "assistant"
    THEN updateChat(s, chatName,
                    [chat EXCEPT !.messages[Len(chat.messages)].content =
                                    partialOutput])
    ELSE addMessage(s, chatName,
                    Message(Len(chat.messages) + 1, "assistant",
                            partialOutput, modelName),
                    currentTime)

chatStreamingCallback(s, chatName, partialOutput, modelName, currentTime) ==
    IF chatName = Crash THEN Result([s EXCEPT !.crashed = TRUE], FALSE, {})
    ELSE IF getChat(s, chatName) = {} THEN Result(s, FALSE, {})
    ELSE streamInto(s, chatName, CHOOSE c \in getChat(s, chatName) : TRUE,
                    partialOutput, modelName, currentTime)


---------------------------------------------------------------------------
\* The initial state: the constructor has run loadChatsAsync to completion on
\* what the persistence backend held.

\* the persistence backend works / may fail
Works == {TRUE}
MayFail == BOOLEAN

\* transcripts a backend may hold from earlier sessions (one file per name)
PersistedStores ==
    {<<>>,
     <<ChatHistory(1, 1, NameA, <<>>)>>,
     <<ChatHistory(1, 1, NameA, <<>>), ChatHistory(2, 1, DEFAULT_CHAT_NAME, <<>>)>>}

EmptyStore ==
    [m_chats |-> <<>>, m_chatNameToIndex |-> <<>>, m_sortedIndices |-> {},
     m_currentChatName |-> {}, m_currentChatIndex |-> 0,
     m_chatInferenceJobIdMap |-> <<>>, counter |-> 0,
     disk |-> {}, kvFiles |-> {}, tracked |-> FALSE, crashed |-> FALSE,
     calls |-> <<>>]

\* what lastOp records: the operation, its name argument, its result (ok, out),
\* the number of chats it found, and the calls it made on the backend
\* value is the int a job getter returned, and -1 for every other operation
Op(op, name, ok, out, size, calls) ==
    [op |-> op, name |-> name, ok |-> ok, out |-> out, size |-> size, calls |-> calls,
     value |-> -1]

JobIds == 1..MaxJobId

\* History of the job ids, kept beside the store (the code has no such state):
\*   lastSet[j]  the chat that was current at the most recent setCurrentJobId(j),
\*               {} when there was none or removeJobId(j) was called since;
\*   inverse[j]  the same, and {} also when that chat was given another job id
\*               since, or when j is or was given to two chats at the same time
\*               (j is then in tainted).
NoJobs ==
    [lastSet |-> [j \in JobIds |-> {}], inverse |-> [j \in JobIds |-> {}],
     tainted |-> {}]

JobSet(g, jobId, current) ==
    LET twice == {j \in JobIds : j = jobId /\ g.inverse[j] # {} /\ g.inverse[j] # current}
        tainted == g.tainted \cup twice
    IN [lastSet |-> [j \in JobIds |-> IF j = jobId THEN current ELSE g.lastSet[j]],
        inverse |-> [j \in JobIds |->
                       IF j = jobId THEN (IF j \in tainted THEN {} ELSE current)
                       ELSE IF g.inverse[j] = current THEN {}
                       ELSE g.inverse[j]],
        tainted |-> tainted]

JobRemoved(g, jobId) ==
    [g EXCEPT !.lastSet = [j \in JobIds |-> IF j = jobId THEN {} ELSE @[j]],
              !.inverse = [j \in JobIds |-> IF j = jobId THEN {} ELSE @[j]]]

---------------------------------------------------------------------------
\* ToolManager (src/include/chat/tool_manager.hpp; src/include/agent/tool_manager.hpp
\* has the same client management, execution and catalog code, and renders a
\* replaced call differently).  The mcp clients are a library outside the
\* sources: what their calls return or throw is an input of each operation,
\* and the calls made on them are logged in the field transport.

Tools ==
    [m_clientType |-> m_clientType, m_sseClient |-> m_sseClient,
     m_stdioClient |-> m_stdioClient, m_sseHost |-> m_sseHost,
     m_ssePort |-> m_ssePort, m_stdioCommand |-> m_stdioCommand,
     m_stdioEnvVars |-> m_stdioEnvVars, m_availableTools |-> m_availableTools,
     m_initialized |-> m_initialized, transport |-> <<>>]

ToolsBecome(s) ==
    /\ m_clientType' = s.m_clientType
    /\ m_sseClient' = s.m_sseClient
    /\ m_stdioClient' = s.m_stdioClient
    /\ m_sseHost' = s.m_sseHost
    /\ m_ssePort' = s.m_ssePort
    /\ m_stdioCommand' = s.m_stdioCommand
    /\ m_stdioEnvVars' = s.m_stdioEnvVars
    /\ m_availableTools' = s.m_availableTools
    /\ m_initialized' = s.m_initialized

\* ToolManager::ToolManager
NewToolManager ==
    [m_clientType |-> "SSE", m_sseClient |-> {}, m_stdioClient |-> {},
     m_sseHost |-> "localhost", m_ssePort |-> 8888, m_stdioCommand |-> "",
     m_stdioEnvVars |-> "{}", m_availableTools |-> <<>>, m_initialized |-> FALSE,
     transport |-> <<>>]

\* a call on the client of the active type
T_call(s, method, arg) ==
    [s EXCEPT !.transport =
        Append(@, [client |-> s.m_clientType, method |-> method, arg |-> arg])]

\* what a call on a client does: it returns value, or it throws a
\* std::exception (value is then not used)
Value(value) == [throws |-> FALSE, value |-> value]

Throw(value) == [throws |-> TRUE, value |-> value]

Returns(s, ret) == [s |-> s, ret |-> ret]

\* refreshAvailableTools; tools is what get_tools() does
\* refreshAvailableTools emptying the catalog before it asks the client
refreshAvailableTools_ClearFirst(s, tools) ==
    IF ~s.m_initialized THEN Returns(s, FALSE)
    ELSE LET s1 == T_call([s EXCEPT !.m_availableTools = <<>>], "get_tools", <<>>)
         IN IF tools.throws THEN Returns(s1, FALSE)
            ELSE Returns([s1 EXCEPT !.m_availableTools = tools.value], TRUE)

refreshAvailableTools(s, tools) ==
    IF ~s.m_initialized THEN Returns(s, FALSE)
    ELSE LET s1 == T_call(s, "get_tools", <<>>)
         IN IF tools.throws THEN Returns(s1, FALSE)
            ELSE Returns([s1 EXCEPT !.m_availableTools = tools.value], TRUE)

\* initializeClient; handshake is what initialize() does, tools what
\* get_tools() does in the refresh that follows a success
initializeClient(s, handshake, tools) ==
    LET s1 == IF s.m_clientType = "SSE"
              THEN IF s.m_sseClient = {}
                   THEN [s EXCEPT !.m_sseClient =
                            {[host |-> s.m_sseHost, port |-> s.m_ssePort]}]
                   ELSE s
              ELSE IF s.m_stdioClient = {}
                   THEN [s EXCEPT !.m_stdioClient =
                            {[command |-> s.m_stdioCommand, env |-> s.m_stdioEnvVars]}]
                   ELSE s
        s2 == T_call(s1, "initialize", <<>>)
    IN IF handshake.throws THEN Returns(s2, FALSE)
       ELSE LET s3 == [s2 EXCEPT !.m_initialized = handshake.value]
                s4 == IF s3.m_initialized THEN refreshAvailableTools(s3, tools).s
                      ELSE s3
            IN Returns(s4, s4.m_initialized)

setClientType(s, type) ==
    IF s.m_clientType # type
    THEN [s EXCEPT !.m_clientType = type, !.m_initialized = FALSE,
                   !.m_availableTools = <<>>]
    ELSE s

isInitialized(s) == s.m_initialized

setSseEndpoint(s, host, port) ==
    IF s.m_sseHost # host \/ s.m_ssePort # port
    THEN LET s1 == [s EXCEPT !.m_sseHost = host, !.m_ssePort = port]
         IN IF s1.m_clientType = "SSE"
            THEN [s1 EXCEPT !.m_sseClient = {}, !.m_initialized = FALSE]
            ELSE s1
    ELSE s

setStdioCommand(s, command, envVars) ==
    IF s.m_stdioCommand # command \/ s.m_stdioEnvVars # envVars
    THEN LET s1 == [s EXCEPT !.m_stdioCommand = command, !.m_stdioEnvVars = envVars]
         IN IF s1.m_clientType = "STDIO"
            THEN [s1 EXCEPT !.m_stdioClient = {}, !.m_initialized = FALSE]
            ELSE s1
    ELSE s

\* Chat::ToolCall (the parameters play no part in what is modelled) and
\* Chat::ToolResult
ToolCall(func_name, start_index, end_index, output) ==
    [func_name |-> func_name, start_index |-> start_index,
     end_index |-> end_index, output |-> output]

ToolResult(toolCall, result, success, error) ==
    [toolCall |-> toolCall, result |-> result, success |-> success, error |-> error]

\* The json a call_tool() returns.  kind is "array" when the response has a
\* "content" member that is an array (content holds its blocks), "other" when
\* it has one that is no array, "absent" when it has none.  A block's text is
\* {} when the block has no "text" member, else {its value}; NotAString stands
\* for a value that is no json string.
Response(kind, content) == [kind |-> kind, content |-> content]

Block(text) == [text |-> text]

NotAString == "#number"

\* executeToolCall without its m_initialized guard: the call is dispatched
\* whatever the state of the engine
executeToolCall_NoGuard(s, toolCall, outcome) ==
    LET s1 == T_call(s, "call_tool", toolCall.func_name)
        response == outcome.value
    IN IF outcome.throws
       THEN Returns(s1, ToolResult(toolCall, "", FALSE, "Tool call error: "))
       ELSE IF /\ response.kind = "array"
               /\ response.content # <<>>
               /\ response.content[1].text \notin {{}, {NotAString}}
       THEN Returns(s1, ToolResult(toolCall,
                                   CHOOSE x \in response.content[1].text : TRUE,
                                   TRUE, ""))
       ELSE Returns(s1, ToolResult(toolCall, "", FALSE,
                                   "Invalid response format from tool call"))

\* executeToolCall; outcome is what call_tool() does
executeToolCall(s, toolCall, outcome) ==
    IF ~s.m_initialized
    THEN Returns(s, ToolResult(toolCall, "", FALSE, "MCP client not initialized"))
    ELSE
      LET s1 == T_call(s, "call_tool", toolCall.func_name)
          response == outcome.value
      IN IF outcome.throws
         THEN Returns(s1, ToolResult(toolCall, "", FALSE, "Tool call error: "))
         ELSE IF /\ response.kind = "array"
                 /\ response.content # <<>>
                 /\ response.content[1].text # {}
         THEN IF response.content[1].text = {NotAString}
              \* get<std::string>() throws a json type_error, a std::exception
              THEN Returns(s1, ToolResult(toolCall, "", FALSE, "Tool call error: "))
              ELSE Returns(s1, ToolResult(toolCall,
                                          CHOOSE x \in response.content[1].text : TRUE,
                                          TRUE, ""))
         ELSE Returns(s1, ToolResult(toolCall, "", FALSE,
                                     "Invalid response format from tool call"))

\* executeTools leaving its loop at the first failed call
RECURSIVE executeToolsFrom_StopAtFailure(_, _, _, _)
executeToolsFrom_StopAtFailure(s, toolCalls, responses, results) ==
    IF toolCalls = <<>> THEN Returns(s, results)
    ELSE LET r == executeToolCall(s, Head(toolCalls), Head(responses))
         IN IF ~r.ret.success THEN Returns(r.s, Append(results, r.ret))
            ELSE executeToolsFrom_StopAtFailure(r.s, Tail(toolCalls),
                                                Tail(responses),
                                                Append(results, r.ret))

\* executeTools; responses[i] is what the transport does on the i-th call
RECURSIVE executeToolsFrom(_, _, _, _)
executeToolsFrom(s, toolCalls, responses, results) ==
    IF toolCalls = <<>> THEN Returns(s, results)
    ELSE LET r == executeToolCall(s, Head(toolCalls), Head(responses))
         IN executeToolsFrom(r.s, Tail(toolCalls), Tail(responses),
                             Append(results, r.ret))

executeTools(s, toolCalls, responses) ==
    executeToolsFrom(s, toolCalls, responses, <<>>)

\* executeToolsAsync: the task std::async runs, on its copy of toolCalls
executeToolsAsync(s, toolCalls, responses) ==
    LET copy == [i \in DOMAIN toolCalls |-> toolCalls[i]]
    IN executeTools(s, copy, responses)

\* what replaces the span of a call: its output (chat/tool_manager.hpp), or
\* func_name + " output: " + output (agent/tool_manager.hpp); strings are
\* sequences of characters here
OutputMark == <<58>>

Rendering(toolCall, agent) ==
    IF agent THEN toolCall.func_name \o OutputMark \o toolCall.output
    ELSE toolCall.output

\* std::string::replace(pos, count, str), pos 0-based
StringReplace(str, pos, count, with) ==
    SubSeq(str, 1, pos) \o with \o SubSeq(str, pos + count + 1, Len(str))

\* the orders std::sort may leave toolCalls in under a.end_index > b.end_index:
\* calls of equal end_index come in any order
SortOrders(toolCalls) ==
    {p \in [DOMAIN toolCalls -> DOMAIN toolCalls] :
        /\ \A i, j \in DOMAIN toolCalls : i # j => p[i] # p[j]
        /\ \A i, j \in DOMAIN toolCalls :
             i < j => toolCalls[p[i]].end_index >= toolCalls[p[j]].end_index}

RECURSIVE replaceLoop(_, _, _)
replaceLoop(result, sortedCalls, agent) ==
    IF sortedCalls = <<>> THEN result
    ELSE LET toolCall == Head(sortedCalls)
         IN replaceLoop(
              IF /\ toolCall.start_index >= 0
                 /\ toolCall.end_index >= toolCall.start_index
                 /\ toolCall.end_index < Len(result)
              THEN StringReplace(result, toolCall.start_index,
                                 toolCall.end_index - toolCall.start_index + 1,
                                 Rendering(toolCall, agent))
              ELSE result,
              Tail(sortedCalls), agent)

\* replaceToolCallsWithResults applying the calls in the order they came in
replaceToolCallsWithResults_Unsorted(text, toolCalls, order, agent) ==
    replaceLoop(text, toolCalls, agent)

\* replaceToolCallsWithResults; order is the order std::sort left the calls in
replaceToolCallsWithResults(text, toolCalls, order, agent) ==
    replaceLoop(text, [i \in DOMAIN toolCalls |-> toolCalls[order[i]]], agent)

\* Texts are std::string values: sequences of character codes, positions
\* counted from 0 as in the code.
LBrace == 123
RBrace == 125
LBracket == 91
RBracket == 93
Quote == 34
Colon == 58
Comma == 44
Space == 32
Backtick == 96
Digits == 48..57

\* std::string::npos
npos == -1

K_tool_calls == <<116, 111, 111, 108, 95, 99, 97, 108, 108, 115>>
K_name == <<110, 97, 109, 101>>
K_arguments == <<97, 114, 103, 117, 109, 101, 110, 116, 115>>
K_raw_arguments == <<114, 97, 119, 95>> \o K_arguments
K_meta == <<109, 101, 116, 97>>
Fence == <<Backtick, Backtick, Backtick>>

Quoted(str) == <<Quote>> \o str \o <<Quote>>

\* text[pos], the terminating NUL past the end
CharAt(text, pos) == IF pos >= 0 /\ pos < Len(text) THEN text[pos + 1] ELSE 0

\* text.substr(pos, count)
Substr(text, pos, count) == SubSeq(text, pos + 1, pos + count)

MatchesAt(text, pat, pos) ==
    /\ pos >= 0
    /\ pos + Len(pat) <= Len(text)
    /\ \A k \in 1..Len(pat) : text[pos + k] = pat[k]

\* text.find(pat, from): the first match that starts at from or later
Find(text, pat, from) ==
    LET at == {pos \in from..(Len(text) - Len(pat)) : MatchesAt(text, pat, pos)}
    IN IF at = {} THEN npos ELSE CHOOSE pos \in at : \A q \in at : pos <= q

\* text.rfind(pat, from): the last match that starts at from or earlier
RFind(text, pat, from) ==
    LET at == {pos \in 0..from : MatchesAt(text, pat, pos)}
    IN IF at = {} THEN npos ELSE CHOOSE pos \in at : \A q \in at : pos >= q

\* mcp::json values (nlohmann::json): an object is a std::map from key to
\* value, so a repeated key keeps its last value and keys iterate in order
JNull == [kind |-> "null", text |-> <<>>, items |-> <<>>, members |-> <<>>]

JString(text) == [JNull EXCEPT !.kind = "string", !.text = text]

JNumber(text) == [JNull EXCEPT !.kind = "number", !.text = text]

JArray(items) == [JNull EXCEPT !.kind = "array", !.items = items]

JObject(members) == [JNull EXCEPT !.kind = "object", !.members = members]

\* json::parse on the grammar of objects, arrays, strings without escapes
\* and unsigned integers, blanks skipped between tokens
Fail == [ok |-> FALSE, value |-> JNull, next |-> 0]

Parsed(value, next) == [ok |-> TRUE, value |-> value, next |-> next]

RECURSIVE SkipWs(_, _)
SkipWs(text, pos) ==
    IF CharAt(text, pos) = Space THEN SkipWs(text, pos + 1) ELSE pos

RECURSIVE DigitsEnd(_, _)
DigitsEnd(text, pos) ==
    IF CharAt(text, pos) \in Digits THEN DigitsEnd(text, pos + 1) ELSE pos

RECURSIVE ParseValue(_, _)
RECURSIVE ParseItems(_, _, _)
RECURSIVE ParseMembers(_, _, _)
ParseValue(text, from) ==
    LET pos == SkipWs(text, from)
        c == CharAt(text, pos)
        close == Find(text, <<Quote>>, pos + 1)
        first == SkipWs(text, pos + 1)
    IN IF c = Quote
       THEN IF close = npos THEN Fail
            ELSE Parsed(JString(Substr(text, pos + 1, close - pos - 1)), close + 1)
       ELSE IF c \in Digits
       THEN Parsed(JNumber(Substr(text, pos, DigitsEnd(text, pos) - pos)),
                   DigitsEnd(text, pos))
       ELSE IF c = LBracket
       THEN IF CharAt(text, first) = RBracket THEN Parsed(JArray(<<>>), first + 1)
            ELSE ParseItems(text, pos + 1, <<>>)
       ELSE IF c = LBrace
       THEN IF CharAt(text, first) = RBrace THEN Parsed(JObject(<<>>), first + 1)
            ELSE ParseMembers(text, pos + 1, <<>>)
       ELSE Fail

ParseItems(text, from, items) ==
    LET item == ParseValue(text, from)
        pos == SkipWs(text, item.next)
    IN IF ~item.ok THEN Fail
       ELSE IF CharAt(text, pos) = Comma
       THEN ParseItems(text, pos + 1, Append(items, item.value))
       ELSE IF CharAt(text, pos) = RBracket
       THEN Parsed(JArray(Append(items, item.value)), pos + 1)
       ELSE Fail

ParseMembers(text, from, members) ==
    LET key == ParseValue(text, from)
        colon == SkipWs(text, key.next)
        value == ParseValue(text, colon + 1)
        pos == SkipWs(text, value.next)
        put == MapPut(members, key.value.text, value.value)
    IN IF ~key.ok \/ key.value.kind # "string" THEN Fail
       ELSE IF CharAt(text, colon) # Colon THEN Fail
       ELSE IF ~value.ok THEN Fail
       ELSE IF CharAt(text, pos) = Comma THEN ParseMembers(text, pos + 1, put)
       ELSE IF CharAt(text, pos) = RBrace THEN Parsed(JObject(put), pos + 1)
       ELSE Fail

\* mcp::json::parse(str): the value, or a parse_error thrown
Parse(str) ==
    LET r == ParseValue(str, 0)
    IN IF r.ok /\ SkipWs(str, r.next) = Len(str) THEN Value(r.value)
       ELSE Throw(JNull)

\* j.contains(key)
contains(j, key) == j.kind = "object" /\ key \in DOMAIN j.members

\* a < b on std::string
RECURSIVE LexLess(_, _)
LexLess(a, b) ==
    IF b = <<>> THEN FALSE
    ELSE IF a = <<>> THEN TRUE
    ELSE IF Head(a) # Head(b) THEN Head(a) < Head(b)
    ELSE LexLess(Tail(a), Tail(b))

\* the keys of an object in the order its std::map iterates them
RECURSIVE KeysInOrder(_)
KeysInOrder(keys) ==
    IF keys = {} THEN <<>>
    ELSE LET least == CHOOSE k \in keys : \A o \in keys \ {k} : LexLess(k, o)
         IN <<least>> \o KeysInOrder(keys \ {least})

RECURSIVE Join(_)
Join(parts) ==
    IF parts = <<>> THEN <<>>
    ELSE IF Len(parts) = 1 THEN parts[1]
    ELSE parts[1] \o <<Comma>> \o Join(Tail(parts))

\* j.dump(): the compact text of a value
RECURSIVE Dump(_)
Dump(j) ==
    IF j.kind = "string" THEN Quoted(j.text)
    ELSE IF j.kind = "number" THEN j.text
    ELSE IF j.kind = "array"
    THEN <<LBracket>> \o Join([i \in DOMAIN j.items |-> Dump(j.items[i])])
           \o <<RBracket>>
    ELSE IF j.kind = "object"
    THEN LET keys == KeysInOrder(DOMAIN j.members)
         IN <<LBrace>>
              \o Join([i \in DOMAIN keys |->
                         Quoted(keys[i]) \o <<Colon>> \o Dump(j.members[keys[i]])])
              \o <<RBrace>>
    ELSE <<110, 117, 108, 108>>

\* a ToolCall as extractToolCalls fills it: output stays empty
ExtractedCall(func_name, params, start_index, end_index) ==
    [func_name |-> func_name, params |-> params, start_index |-> start_index,
     end_index |-> end_index, output |-> <<>>]

\* one turn of the loop that looks for the brace closing the one at
\* jsonStart (agent/tool_manager.hpp, lines 282-298); found is the break
closingBraceStep(text, i, scan) ==
    LET c == CharAt(text, i)
    IN IF scan.found THEN scan
       ELSE IF c = Quote THEN [scan EXCEPT !.inQuotes = ~scan.inQuotes]
       ELSE IF scan.inQuotes THEN scan
       ELSE IF c = LBrace THEN [scan EXCEPT !.braceCount = scan.braceCount + 1]
       ELSE IF c = RBrace
       THEN IF scan.braceCount - 1 = 0
            THEN [scan EXCEPT !.braceCount = 0, !.jsonEnd = i, !.found = TRUE]
            ELSE [scan EXCEPT !.braceCount = scan.braceCount - 1]
       ELSE scan

\* the turns i = from .. to - 1 of the loop, in order
RECURSIVE closingBrace(_, _, _, _)
closingBrace(text, from, to, scan) ==
    IF from >= to THEN scan
    ELSE IF to = from + 1 THEN closingBraceStep(text, from, scan)
    ELSE LET mid == (from + to) \div 2
             left == closingBrace(text, from, mid, scan)
         IN IF left.found THEN left ELSE closingBrace(text, mid, to, left)

\* it.value().is_string() ? it.value().get<std::string>() : it.value().dump()
ParamText(value) == IF value.kind = "string" THEN value.text ELSE Dump(value)

ParamsOf(object) == [k \in DOMAIN object.members |-> ParamText(object.members[k])]

\* toolCall.params out of callJson["arguments"] (lines 349-367): in the
\* string case key() throws on a value that is no object, and the catch
\* keeps the raw string
paramsFrom(arguments) ==
    IF arguments.kind = "object" THEN ParamsOf(arguments)
    ELSE IF arguments.kind = "string"
    THEN LET argsJson == Parse(arguments.text)
             raw == [k \in {K_raw_arguments} |-> arguments.text]
         IN IF argsJson.throws THEN raw
            ELSE IF argsJson.value.kind = "object" THEN ParamsOf(argsJson.value)
            ELSE IF argsJson.value.kind = "array" /\ argsJson.value.items = <<>>
            THEN <<>>
            ELSE raw
    ELSE <<>>

\* the loop over toolCallsJson["tool_calls"] (lines 333-371); get<std::string>()
\* on a name that is no string throws, the catch at line 373 ends the loop and
\* result is returned as it is
RECURSIVE callsFrom(_, _, _, _)
callsFrom(entries, start_index, end_index, result) ==
    IF entries = <<>> THEN result
    ELSE LET callJson == Head(entries)
         IN IF contains(callJson, K_name) /\ contains(callJson, K_arguments)
            THEN IF callJson.members[K_name].kind # "string" THEN result
                 ELSE callsFrom(Tail(entries), start_index, end_index,
                        Append(result,
                               ExtractedCall(callJson.members[K_name].text,
                                             paramsFrom(callJson.members[K_arguments]),
                                             start_index, end_index)))
            ELSE callsFrom(Tail(entries), start_index, end_index, result)

\* extractToolCalls of the JSON-envelope engine (agent/tool_manager.hpp)
extractToolCalls(text) ==
    LET toolCallsPos == Find(text, Quoted(K_tool_calls), 0)
        jsonStart == RFind(text, <<LBrace>>, toolCallsPos)
        scan == closingBrace(text, jsonStart + 1, Len(text),
                             [braceCount |-> 1, inQuotes |-> FALSE,
                              jsonEnd |-> jsonStart, found |-> FALSE])
        jsonEnd == scan.jsonEnd
        backticksStart == RFind(text, Fence, jsonStart)
        backticksEnd == Find(text, Fence, jsonEnd)
        inCodeBlock == backticksStart # npos /\ backticksEnd # npos
        jsonStr == Substr(text, jsonStart, jsonEnd - jsonStart + 1)
        toolCallsJson == Parse(jsonStr)
    IN IF toolCallsPos = npos THEN <<>>
       ELSE IF jsonStart = npos THEN <<>>
       ELSE IF scan.braceCount # 0 THEN <<>>
       ELSE IF toolCallsJson.throws THEN <<>>
       ELSE IF \/ ~contains(toolCallsJson.value, K_tool_calls)
               \/ toolCallsJson.value.members[K_tool_calls].kind # "array"
       THEN <<>>
       ELSE callsFrom(toolCallsJson.value.members[K_tool_calls].items,
                      IF inCodeBlock THEN backticksStart ELSE jsonStart,
                      IF inCodeBlock THEN backticksEnd + 3 - 1 ELSE jsonEnd,
                      <<>>)

---------------------------------------------------------------------------
\* Detection in the JSON-envelope engine, and the bracketed-call engine.

\* containsToolCall of the JSON-envelope engine (agent/tool_manager.hpp,
\* lines 236-259).  Every quote toggles inQuote, so a character is outside
\* quotes when an even number of quotes precedes it.
containsToolCall(text) ==
    LET outside(i) == Cardinality({j \in 1..(i - 1) : text[j] = Quote}) % 2 = 0
        opened == {i \in DOMAIN text : text[i] = LBrace /\ outside(i)}
        closed == {i \in DOMAIN text : text[i] = RBrace /\ outside(i)}
        braceCount == Cardinality(opened) - Cardinality(closed)
    IN IF Find(text, K_tool_calls, 0) = npos THEN FALSE
       ELSE IF Find(text, K_name, 0) = npos \/ Find(text, K_arguments, 0) = npos
       THEN FALSE
       ELSE braceCount = 0 /\ Find(text, <<LBrace>>, 0) # npos

LParen == 40
RParen == 41
Equals == 61
Backslash == 92
Newline == 10
CarriageReturn == 13

\* std::isspace, and \s of the regular expressions
isspace(c) == c = Space \/ c \in 9..13

\* \w of the regular expressions
IsWord(c) == c \in Digits \/ c \in 65..90 \/ c \in 97..122 \/ c = 95

\* a match of s_toolCallBlockRegex, \[(.*?)\], at or after from: the leftmost
\* '[' that a ']' follows with no line terminator in between, up to the first
\* such ']'; first = npos when there is none
blockMatch(text, from) ==
    LET close(p) == Find(text, <<RBracket>>, p + 1)
        matches(p) ==
            /\ CharAt(text, p) = LBracket
            /\ close(p) # npos
            /\ \A k \in (p + 1)..(close(p) - 1) :
                  CharAt(text, k) \notin {Newline, CarriageReturn}
        starts == {p \in from..(Len(text) - 1) : matches(p)}
        first == CHOOSE p \in starts : \A q \in starts : p <= q
    IN IF starts = {} THEN [first |-> npos, last |-> npos]
       ELSE [first |-> first, last |-> close(first)]

RECURSIVE wordEnd(_, _)
wordEnd(text, pos) ==
    IF IsWord(CharAt(text, pos)) THEN wordEnd(text, pos + 1) ELSE pos

RECURSIVE spaceEnd(_, _)
spaceEnd(text, pos) ==
    IF pos < Len(text) /\ isspace(CharAt(text, pos)) THEN spaceEnd(text, pos + 1)
    ELSE pos

\* the arguments of s_functionCallRegex, ((?:[^()]|(?:\([^()]*\)))*)\s*\):
\* characters other than parentheses and groups in parentheses that hold none,
\* up to the ')' that closes the call; npos when the text does not go on so
RECURSIVE argsEnd(_, _)
argsEnd(text, pos) ==
    LET c == CharAt(text, pos)
        inner == {k \in (pos + 1)..(Len(text) - 1) :
                     CharAt(text, k) \in {LParen, RParen}}
        next == CHOOSE k \in inner : \A q \in inner : k <= q
    IN IF pos >= Len(text) THEN npos
       ELSE IF c = RParen THEN pos
       ELSE IF c = LParen
       THEN IF inner = {} \/ CharAt(text, next) = LParen THEN npos
            ELSE argsEnd(text, next + 1)
       ELSE argsEnd(text, pos + 1)

\* a match of s_functionCallRegex, (\w+)\s*\(\s*(...)\s*\), at or after from:
\* first = npos when there is none, else the name, the arguments and the
\* position after the match
functionMatch(text, from) ==
    LET open(s) == spaceEnd(text, wordEnd(text, s))
        close(s) == IF CharAt(text, open(s)) = LParen
                    THEN argsEnd(text, open(s) + 1) ELSE npos
        starts == {s \in from..(Len(text) - 1) :
                      IsWord(CharAt(text, s)) /\ close(s) # npos}
        first == CHOOSE s \in starts : \A q \in starts : s <= q
        args == spaceEnd(text, open(first) + 1)
    IN IF starts = {}
       THEN [first |-> npos, name |-> <<>>, params |-> <<>>, suffix |-> npos]
       ELSE [first |-> first,
             name |-> Substr(text, first, wordEnd(text, first) - first),
             params |-> IF args >= close(first) THEN <<>>
                        ELSE Substr(text, args, close(first) - args),
             suffix |-> close(first) + 1]

\* trimString
trimString(str) ==
    LET kept == {i \in DOMAIN str : ~isspace(str[i])}
        first == CHOOSE i \in kept : \A k \in kept : i <= k
        last == CHOOSE i \in kept : \A k \in kept : i >= k
    IN IF kept = {} THEN <<>> ELSE SubSeq(str, first, last)

\* the loop of parseParameters that finds the end of a value: a comma outside
\* quotes and parentheses, or the end of the string
RECURSIVE valueEnd(_, _, _, _)
valueEnd(paramsStr, pos, parenDepth, inQuotes) ==
    LET c == CharAt(paramsStr, pos)
    IN IF pos >= Len(paramsStr) THEN pos
       ELSE IF c = Quote /\ (pos = 0 \/ CharAt(paramsStr, pos - 1) # Backslash)
       THEN valueEnd(paramsStr, pos + 1, parenDepth, ~inQuotes)
       ELSE IF inQuotes THEN valueEnd(paramsStr, pos + 1, parenDepth, inQuotes)
       ELSE IF c = LParen THEN valueEnd(paramsStr, pos + 1, parenDepth + 1, inQuotes)
       ELSE IF c = RParen THEN valueEnd(paramsStr, pos + 1, parenDepth - 1, inQuotes)
       ELSE IF c = Comma /\ parenDepth = 0 THEN pos
       ELSE valueEnd(paramsStr, pos + 1, parenDepth, inQuotes)

\* parseParameters from position from on, params being what was found before
RECURSIVE parseParameters(_, _, _)
parseParameters(paramsStr, from, params) ==
    LET nameStart == spaceEnd(paramsStr, from)
        pos == Find(paramsStr, <<Equals>>, nameStart)
        name == trimString(Substr(paramsStr, nameStart, pos - nameStart))
        valueStart == pos + 1
        end == valueEnd(paramsStr, valueStart, 0, FALSE)
        value == trimString(Substr(paramsStr, valueStart, end - valueStart))
    IN IF from >= Len(paramsStr) THEN params
       ELSE IF nameStart >= Len(paramsStr) THEN params
       ELSE IF pos = npos THEN params
       ELSE parseParameters(paramsStr,
                            IF CharAt(paramsStr, end) = Comma THEN end + 1 ELSE end,
                            MapPut(params, name, value))

\* the inner loop of the bracketed extractToolCalls: the calls of one block
RECURSIVE blockCalls(_, _, _, _, _)
blockCalls(blockContent, from, blockStartIndex, blockEndIndex, result) ==
    LET funcMatch == functionMatch(blockContent, from)
    IN IF funcMatch.first = npos THEN result
       ELSE blockCalls(blockContent, funcMatch.suffix, blockStartIndex, blockEndIndex,
                       Append(result,
                              ExtractedCall(funcMatch.name,
                                            parseParameters(funcMatch.params, 0, <<>>),
                                            blockStartIndex, blockEndIndex)))

\* the outer loop: the blocks of the text from searchStart on
RECURSIVE blocksFrom(_, _, _)
blocksFrom(text, searchStart, result) ==
    LET m == blockMatch(text, searchStart)
        blockContent == Substr(text, m.first + 1, m.last - m.first - 1)
    IN IF m.first = npos THEN result
       ELSE blocksFrom(text, m.last + 1,
                       blockCalls(blockContent, 0, m.first, m.last, result))

\* extractToolCalls of the bracketed-call engine (chat/tool_manager.hpp)
Bracketed_extractToolCalls(text) == blocksFrom(text, 0, <<>>)

\* containsToolCall of the bracketed-call engine
Bracketed_containsToolCall(text) ==
    IF \/ Find(text, <<LBracket>>, 0) = npos
       \/ Find(text, <<LParen>>, 0) = npos
       \/ Find(text, <<RParen>>, 0) = npos
       \/ Find(text, <<RBracket>>, 0) = npos
    THEN FALSE
    ELSE blockMatch(text, 0).first # npos /\ functionMatch(text, 0).first # npos

\* std::chrono::system_clock::time_point: whole seconds, and whether a part
\* of a second (less than half of one) comes on top
TimePoint(sec, frac) == [sec |-> sec, frac |-> frac]

\* one hour, what local time is ahead by while daylight saving time holds
DstShift == 3600

\* timePointToString: to_time_t drops the part of a second, localtime gives
\* the wall clock (isdst: daylight saving time holds at tp), put_time writes
\* it as "%Y-%m-%d %H:%M:%S"; the text is given by the second it names
timePointToString(tp, isdst) == tp.sec + (IF isdst THEN DstShift ELSE 0)

\* stringToTimePoint: get_time fills a zeroed tm, so tm_isdst = 0, and mktime
\* takes the wall clock for standard time
stringToTimePoint(str) == TimePoint(str, 0)

\* Chat::Message with the members the serialization reads
\* (chat/chat_history.hpp) and those the store and the streaming callback
\* set (chat_manager.hpp line 416, ui/chat/chat_history.hpp lines 653-676)
StoredMessage(id, isLiked, isDisliked, role, content, timestamp, tps, modelName, toolCalls) ==
    [id |-> id, isLiked |-> isLiked, isDisliked |-> isDisliked, role |-> role,
     content |-> content, timestamp |-> timestamp, tps |-> tps,
     modelName |-> modelName, toolCalls |-> toolCalls]

\* a default-constructed Message
NoMessage == StoredMessage(0, FALSE, FALSE, "user", "", TimePoint(0, 0), 0, "", <<>>)

\* Message::Message(id, role, content, isLiked, isDisliked, timestamp)
MessageCtor(id, role, content, isLiked, isDisliked, timestamp) ==
    IF role = "user" \/ role = "assistant"
    THEN Value([NoMessage EXCEPT !.id = id, !.isLiked = isLiked,
                                 !.isDisliked = isDisliked, !.role = role,
                                 !.content = content, !.timestamp = timestamp])
    ELSE Throw(NoMessage)

\* to_json(json&, const Message&)
Message_to_json(msg, isdst) ==
    [id |-> msg.id, isLiked |-> msg.isLiked, isDisliked |-> msg.isDisliked,
     role |-> msg.role, content |-> msg.content,
     timestamp |-> timePointToString(msg.timestamp, isdst)]

\* from_json(const json&, Message&), on a default-constructed Message
Message_from_json(j) ==
    [NoMessage EXCEPT !.id = j.id, !.isLiked = j.isLiked,
                      !.isDisliked = j.isDisliked, !.role = j.role,
                      !.content = j.content,
                      !.timestamp = stringToTimePoint(j.timestamp)]

\* to_json(json&, const ChatHistory&)
ChatHistory_to_json(chatHistory, isdst) ==
    [id |-> chatHistory.id, lastModified |-> chatHistory.lastModified,
     name |-> chatHistory.name,
     messages |-> [i \in DOMAIN chatHistory.messages |->
                     Message_to_json(chatHistory.messages[i], isdst)]]

\* from_json(const json&, ChatHistory&)
ChatHistory_from_json(j) ==
    ChatHistory(j.id, j.lastModified, j.name,
                [i \in DOMAIN j.messages |-> Message_from_json(j.messages[i])])

\* the ToolManager operation that returned last: its name, arguments, result
\* and the calls it made on the clients
ToolOp(op, arg, ret, transport) ==
    [op |-> op, arg |-> arg, ret |-> ret, transport |-> transport]

\* A model response that carries a tool_calls envelope, described by its
\* parts: whether a member "meta":{} comes before the "tool_calls" key, the
\* entries of the array, whether the outer brace is closed, and whether the
\* envelope stands in a ``` code block.
Doc(meta, entries, closed, fenced) ==
    [meta |-> meta, entries |-> entries, closed |-> closed, fenced |-> fenced]

NoDoc == Doc(FALSE, <<>>, TRUE, FALSE)

NoChat == ChatHistory(0, 0, <<>>, <<>>)

\* the arguments of an operation, those it does not take at their defaults
NoArgs ==
    [type |-> "", host |-> "", port |-> 0, command |-> "", envVars |-> "",
     tools |-> Throw(<<>>), toolCalls |-> <<>>, outcomes |-> <<>>, text |-> <<>>,
     agent |-> FALSE, doc |-> NoDoc, chat |-> NoChat, message |-> NoMessage,
     isdst |-> FALSE]

\* what an operation returned: a bool (true for a void operation), a vector of
\* ToolResult, a string, a vector of ToolCall, a ChatHistory, or a Message
\* unless the constructor threw
Ok(ok) ==
    [ok |-> ok, results |-> <<>>, text |-> <<>>, calls |-> <<>>, chat |-> NoChat,
     message |-> Throw(NoMessage)]

Results(results) == [Ok(TRUE) EXCEPT !.results = results]

TextOut(text) == [Ok(TRUE) EXCEPT !.text = text]

Calls(calls) == [Ok(TRUE) EXCEPT !.calls = calls]

\* the ToolManager singleton as constructed
ToolsStart ==
    /\ m_clientType = NewToolManager.m_clientType
    /\ m_sseClient = NewToolManager.m_sseClient
    /\ m_stdioClient = NewToolManager.m_stdioClient
    /\ m_sseHost = NewToolManager.m_sseHost
    /\ m_ssePort = NewToolManager.m_ssePort
    /\ m_stdioCommand = NewToolManager.m_stdioCommand
    /\ m_stdioEnvVars = NewToolManager.m_stdioEnvVars
    /\ m_availableTools = NewToolManager.m_availableTools
    /\ m_initialized = NewToolManager.m_initialized
    /\ lastTool = ToolOp("new", NoArgs, Ok(TRUE), <<>>)

InitWith(stores, oks, follow) ==
    /\ now = 1
    /\ opCount = 0
    /\ lastOp = Op("load", EmptyName, TRUE, {}, 0, <<>>)
    /\ jobGhost = NoJobs
    /\ m_mutex = {}
    /\ thread = {}
    /\ pcSwitch = {}
    /\ loadTask = {}
    /\ pcCallback = {}
    /\ ToolsStart
    /\ \E chats \in stores, saveOk \in oks :
         LET onDisk == IF follow THEN {chats[i].name : i \in DOMAIN chats} ELSE {}
             s == loadChatsAsync([EmptyStore EXCEPT !.disk = onDisk, !.kvFiles = onDisk,
                                                    !.tracked = follow],
                                 chats, 1, saveOk)
         IN /\ m_chats = s.m_chats
            /\ m_chatNameToIndex = s.m_chatNameToIndex
            /\ m_sortedIndices = s.m_sortedIndices
            /\ m_currentChatName = s.m_currentChatName
            /\ m_currentChatIndex = s.m_currentChatIndex
            /\ m_chatInferenceJobIdMap = s.m_chatInferenceJobIdMap
            /\ counter = s.counter
            /\ disk = s.disk
            /\ kvFiles = s.kvFiles
            /\ tracked = s.tracked
            /\ crashed = s.crashed

Init == InitWith(PersistedStores, Works, FALSE)

---------------------------------------------------------------------------
\* Inputs.

\* names a caller creates or renames with, and names it addresses a chat by
\* (besides the names of the chats in the store)
NewNames == {NameA, DEFAULT_CHAT_NAME}
InputNames == {NameB}

Contents == {"x", "y"}
ModelNames == {"m"}

\* a message a caller adds: the UI numbers it size + 1
NewMessages(chat) == {Message(Len(chat.messages) + 1, "user", "x", "")}

Done(r, op, name) ==
    /\ Becomes(r.s)
    /\ lastOp' = Op(op, name, r.ok, r.out, Len(m_chats), r.s.calls)
    /\ now' = now
    /\ opCount' = opCount + 1
    /\ UNCHANGED <<threadVars, toolVars>>

Returned(r, op, name) == Done(r, op, name) /\ jobGhost' = jobGhost

\* an operation can be called: the process runs, and the model's bound on the
\* number of operations is not reached
Running == ~crashed /\ opCount < MaxOps

---------------------------------------------------------------------------
\* Actions: one per public operation.

Tick ==
    /\ ~crashed
    /\ opCount' = opCount
    /\ now < MaxTime
    /\ now' = now + 1
    /\ lastOp' = Op("tick", EmptyName, TRUE, {}, Len(m_chats), <<>>)
    /\ UNCHANGED <<jobGhost, m_chats, m_chatNameToIndex, m_sortedIndices, m_currentChatName,
                   m_currentChatIndex, m_chatInferenceJobIdMap, counter, disk,
                   kvFiles, tracked, crashed, threadVars, toolVars>>

CreateNewChat(names, oks) ==
    /\ Running
    /\ Len(m_chats) < MaxChats
    /\ \E name \in names, saveOk \in oks :
         LET r == createNewChat(Store, name, now, saveOk)
         IN /\ r.s.counter <= MaxCounter
            /\ Returned(r, "createNewChat", name)

RenameCurrentChat(names, oks) ==
    /\ Running
    /\ \E newName \in names, saveOk \in oks, delOk \in oks, kvOk \in oks :
         Returned(renameCurrentChat(Store, newName, now, saveOk, delOk, kvOk),
                  "renameCurrentChat", newName)

DeleteChat(names, oks) ==
    /\ Running
    /\ \E name \in names \cup DOMAIN m_chatNameToIndex,
          saveOk \in oks, delOk \in oks, kvOk \in oks :
         \E ub \in UndefinedReads(Store) :
            Returned(deleteChat(Store, name, now, saveOk, delOk, kvOk, ub),
                     "deleteChat", name)

SwitchToChat(names) ==
    /\ Running
    /\ \E name \in names \cup DOMAIN m_chatNameToIndex :
         LET r == switchToChat(Store, name)
         IN Returned(Result(r.s, r.ret, {}), "switchToChat", name)

ClearCurrentChat(oks) ==
    /\ Running
    /\ \E saveOk \in oks :
         Returned(clearCurrentChat(Store, now, saveOk), "clearCurrentChat", EmptyName)

AddMessageToCurrentChat(oks) ==
    /\ Running
    /\ \A c \in getCurrentChat(Store) : Len(c.messages) < MaxMsgs
    /\ \E saveOk \in oks :
         \E message \in UNION {NewMessages(c) : c \in getCurrentChat(Store)}
                        \cup (IF getCurrentChat(Store) = {} THEN {Message(1, "user", "x", "")} ELSE {}) :
            Returned(addMessageToCurrentChat(Store, message, now, saveOk),
                     "addMessageToCurrentChat", EmptyName)

AddMessage(names) ==
    /\ Running
    /\ \E chatName \in names \cup DOMAIN m_chatNameToIndex :
         LET it == FindByName(m_chats, chatName)
         IN /\ it # -1 => Len(At(m_chats, it).messages) < MaxMsgs
            /\ \E message \in IF it # -1 THEN NewMessages(At(m_chats, it))
                              ELSE {Message(1, "user", "x", "")} :
                 Returned(addMessage(Store, chatName, message, now), "addMessage", chatName)

DeleteMessage(names) ==
    /\ Running
    /\ \E chatName \in names \cup DOMAIN m_chatNameToIndex, index \in -1..MaxMsgs :
         Returned(deleteMessage(Store, chatName, index, now), "deleteMessage", chatName)

SetMessageModelName(names) ==
    /\ Running
    /\ \E chatName \in names \cup DOMAIN m_chatNameToIndex, index \in -1..MaxMsgs, modelName \in ModelNames,
          ubCrash \in BOOLEAN :
         Returned(setMessageModelName(Store, chatName, index, modelName, now, ubCrash),
                  "setMessageModelName", chatName)

\* updateChat as the streaming callback calls it: with a copy of the stored
\* chat whose last message has new content
UpdateChat(names) ==
    /\ Running
    /\ \E chatName \in names \cup DOMAIN m_chatNameToIndex, content \in Contents :
         LET it == FindByName(m_chats, chatName)
             chat == IF it = -1 THEN ChatHistory(0, 0, chatName, <<>>)
                     ELSE LET c == At(m_chats, it)
                          IN IF c.messages = <<>> THEN c
                             ELSE [c EXCEPT !.messages[Len(c.messages)].content = content]
         IN Returned(updateChat(Store, chatName, chat), "updateChat", chatName)

ProcessInput(oks) ==
    /\ Running
    /\ \A c \in getCurrentChat(Store) : Len(c.messages) < MaxThread
    /\ \E input \in Contents, jobId \in JobIds, saveOk \in oks :
         /\ Done(processInput(Store, input, jobId, now, saveOk), "processInput",
                 EmptyName)
         /\ jobGhost' = IF getCurrentChat(Store) = {} THEN jobGhost
                        ELSE JobSet(jobGhost, jobId, m_currentChatName)

ChatStreamingCallback ==
    /\ Running
    /\ \E jobId \in JobIds, partialOutput \in Contents, modelName \in ModelNames :
         \E chatName \in getChatNameByJobId(Store, jobId) :
            /\ \A c \in getChat(Store, chatName) : Len(c.messages) <= MaxThread
            /\ \A c \in getChat(Store, chatName) :
                  Len(c.messages) = MaxThread =>
                      c.messages[Len(c.messages)].role = "assistant"
            /\ Returned(chatStreamingCallback(Store, chatName, partialOutput,
                                              modelName, now),
                        "chatStreamingCallback", chatName)

Next ==
    \/ Tick
    \/ CreateNewChat(NewNames, Works)
    \/ RenameCurrentChat(NewNames, Works)
    \/ DeleteChat(InputNames, Works)
    \/ SwitchToChat(InputNames)
    \/ ClearCurrentChat(Works)
    \/ AddMessageToCurrentChat(Works)
    \/ AddMessage(InputNames)
    \/ DeleteMessage(InputNames)
    \/ SetMessageModelName(InputNames)
    \/ UpdateChat(InputNames)

Spec == Init /\ [][Next]_vars


---------------------------------------------------------------------------
\* Job tracking operations.

\* the job ids a caller passes: the ids of jobs, and the no-job sentinel
JobInputs == JobIds \cup {-1}

SetCurrentJobId ==
    /\ Running
    /\ \E jobId \in JobInputs :
         /\ Done(setCurrentJobId(Store, jobId), "setCurrentJobId", EmptyName)
         /\ jobGhost' = JobSet(jobGhost, jobId, m_currentChatName)

RemoveJobId ==
    /\ Running
    /\ \E jobId \in JobIds :
         LET hits == {k \in DOMAIN m_chatInferenceJobIdMap :
                         m_chatInferenceJobIdMap[k] = jobId}
         IN \E chatIndex \in IF hits = {} THEN {-1} ELSE hits :
              /\ Done(removeJobId(Store, jobId, chatIndex), "removeJobId", EmptyName)
              /\ jobGhost' = JobRemoved(jobGhost, jobId)

\* a job getter has returned r.value and left the store r.s
Got(r, op, name) ==
    /\ Becomes(r.s)
    /\ lastOp' = [Op(op, name, TRUE, {}, Len(m_chats), r.s.calls)
                    EXCEPT !.value = r.value]
    /\ now' = now
    /\ opCount' = opCount + 1
    /\ jobGhost' = jobGhost
    /\ UNCHANGED <<threadVars, toolVars>>

GetCurrentJobId ==
    /\ Running
    /\ Got(getCurrentJobId(Store), "getCurrentJobId", EmptyName)

GetJobId(names) ==
    /\ Running
    /\ \E chatName \in names \cup DOMAIN m_chatNameToIndex :
         Got(getJobId(Store, chatName), "getJobId", chatName)

---------------------------------------------------------------------------
\* Specifications over parts of the interface.

\* setCurrentJobId, removeJobId and switchToChat only
NextJobs ==
    \/ SetCurrentJobId
    \/ RemoveJobId
    \/ SwitchToChat(InputNames)

SpecJobs == Init /\ [][NextJobs]_vars

\* the job ids set, cleared and read back
NextJobReads ==
    \/ SetCurrentJobId
    \/ RemoveJobId
    \/ SwitchToChat(InputNames)
    \/ GetCurrentJobId
    \/ GetJobId(InputNames)

SpecJobReads == Init /\ [][NextJobReads]_vars

\* job tracking with chats created and deleted
NextJobsDelete ==
    \/ SetCurrentJobId
    \/ SwitchToChat(InputNames)
    \/ CreateNewChat(NewNames, Works)
    \/ DeleteChat(InputNames, Works)

SpecJobsDelete == Init /\ [][NextJobsDelete]_vars

\* creation, renaming, selection and deletion of chats
NextDelete ==
    \/ Tick
    \/ CreateNewChat(NewNames, Works)
    \/ RenameCurrentChat(NewNames, Works)
    \/ DeleteChat(InputNames, Works)
    \/ SwitchToChat(InputNames)

SpecDelete == Init /\ [][NextDelete]_vars

\* createNewChat, renameCurrentChat and addMessage (by name) only
NextRecency ==
    \/ Tick
    \/ CreateNewChat(NewNames, Works)
    \/ RenameCurrentChat(NewNames, Works)
    \/ AddMessage(InputNames)

SpecRecency == Init /\ [][NextRecency]_vars

\* createNewChat and renameCurrentChat only, with names at the length limit
LongNames == {NameA, LongName, EmptyName}

\* the message thread of the chats: user input, streamed answers, deletions
NextThread ==
    \/ ProcessInput(Works)
    \/ ChatStreamingCallback
    \/ DeleteMessage(InputNames)

SpecThread == Init /\ [][NextThread]_vars

NextNames ==
    \/ Tick
    \/ CreateNewChat(LongNames, Works)
    \/ RenameCurrentChat(LongNames, Works)

SpecNames == Init /\ [][NextNames]_vars

\* the chat lifecycle over a backend whose content is followed and whose calls
\* may fail
InitPersist == InitWith(PersistedStores, MayFail, TRUE)

NextPersist ==
    \/ CreateNewChat(NewNames, Works)
    \/ RenameCurrentChat(NewNames, Works)
    \/ DeleteChat(InputNames, MayFail)
    \/ SwitchToChat(InputNames)

SpecPersist == InitPersist /\ [][NextPersist]_vars

\* renaming over a persistence backend whose every step may fail
NextRenamePersist ==
    \/ CreateNewChat(NewNames, Works)
    \/ RenameCurrentChat(NewNames, MayFail)
    \/ SwitchToChat(InputNames)

SpecRenamePersist == InitPersist /\ [][NextRenamePersist]_vars

---------------------------------------------------------------------------
\* Two threads.  A write operation runs on one thread in steps: it takes
\* m_mutex and changes the store (Begin), makes its calls on the backend one
\* after the other (BackendCall), and returns (Return).  switchToChat runs on
\* another thread and takes no lock: its find (SwitchFind) and its assignments
\* (SwitchAssign) are separate steps.

\* whether op still holds m_mutex while it makes call: deleteChat unlocks
\* before deleteKvChat, and nothing else unlocks before it returns
LockHeldDuring(op, call) == ~(op = "deleteChat" /\ call = "deleteKvChat")

Begin(r, op, name) ==
    /\ Running
    /\ thread = {}
    /\ m_mutex = {}
    /\ Becomes(r.s)
    /\ m_mutex' = {op}
    /\ thread' = {[op |-> op, name |-> name, ok |-> r.ok, out |-> r.out,
                   calls |-> r.s.calls, at |-> 0, size |-> Len(m_chats)]}
    /\ UNCHANGED <<now, opCount, jobGhost, lastOp, pcSwitch, loadTask, pcCallback, toolVars>>

BeginCreateNewChat ==
    /\ Len(m_chats) < MaxChats
    /\ \E name \in NewNames :
         LET r == createNewChat(Store, name, now, TRUE)
         IN r.s.counter <= MaxCounter /\ Begin(r, "createNewChat", name)

BeginDeleteChat ==
    /\ Running
    /\ \E name \in InputNames \cup DOMAIN m_chatNameToIndex, delOk \in MayFail :
         \E ub \in UndefinedReads(Store) :
            Begin(deleteChat(Store, name, now, TRUE, delOk, TRUE, ub), "deleteChat", name)

BeginRenameCurrentChat ==
    /\ Running
    /\ \E newName \in NewNames, saveOk \in MayFail :
         Begin(renameCurrentChat(Store, newName, now, saveOk, TRUE, TRUE),
               "renameCurrentChat", newName)

BeginClearCurrentChat ==
    /\ Running
    /\ Begin(clearCurrentChat(Store, now, TRUE), "clearCurrentChat", EmptyName)

BeginAddMessageToCurrentChat ==
    /\ \A c \in getCurrentChat(Store) : Len(c.messages) < MaxMsgs
    /\ \E message \in UNION {NewMessages(c) : c \in getCurrentChat(Store)} :
         Begin(addMessageToCurrentChat(Store, message, now, TRUE),
               "addMessageToCurrentChat", EmptyName)

\* the operation makes its next call on the backend: call th.at is in progress
BackendCall ==
    \E th \in thread :
      /\ th.at < Len(th.calls)
      /\ thread' = {[th EXCEPT !.at = @ + 1]}
      /\ m_mutex' = IF LockHeldDuring(th.op, th.calls[th.at + 1].call)
                    THEN m_mutex ELSE {}
      /\ UNCHANGED <<chatVars, pcSwitch, loadTask, pcCallback, toolVars>>

\* the last call has returned and so does the operation, unlocking
Return ==
    \E th \in thread :
      /\ th.at = Len(th.calls)
      /\ thread' = {}
      /\ m_mutex' = {}
      /\ lastOp' = Op(th.op, th.name, th.ok, th.out, th.size, th.calls)
      /\ opCount' = opCount + 1
      /\ UNCHANGED <<m_chats, m_chatNameToIndex, m_sortedIndices, m_currentChatName,
                     m_currentChatIndex, m_chatInferenceJobIdMap, counter, disk,
                     kvFiles, tracked, crashed, now, jobGhost, pcSwitch, loadTask, pcCallback, toolVars>>

\* switchToChat, up to its return for an unknown name, else to its assignments
SwitchFind ==
    /\ Running
    /\ pcSwitch = {}
    /\ \E name \in InputNames \cup DOMAIN m_chatNameToIndex :
         IF name \notin DOMAIN m_chatNameToIndex
         THEN /\ lastOp' = Op("switchToChat", name, FALSE, {}, Len(m_chats), <<>>)
              /\ opCount' = opCount + 1
              /\ UNCHANGED <<m_chats, m_chatNameToIndex, m_sortedIndices,
                             m_currentChatName, m_currentChatIndex,
                             m_chatInferenceJobIdMap, counter, disk, kvFiles, tracked,
                             crashed, now, jobGhost, threadVars, toolVars>>
         ELSE /\ pcSwitch' = {[name |-> name, index |-> m_chatNameToIndex[name]]}
              /\ UNCHANGED <<chatVars, m_mutex, thread, loadTask, pcCallback, toolVars>>

\* what it->second reads once the element it points to has been erased: the
\* behaviour is undefined; the value that was there, any position, or a crash
DanglingReads(found) == {found} \cup (0..MaxChats) \cup {-1}

\* m_currentChatName = name; m_currentChatIndex = it->second; return true
SwitchAssign ==
    \E p \in pcSwitch :
      \E index \in IF p.name \in DOMAIN m_chatNameToIndex
                   THEN {m_chatNameToIndex[p.name]}
                   ELSE DanglingReads(p.index) :
         /\ pcSwitch' = {}
         /\ crashed' = (index = -1)
         /\ m_currentChatName' = IF index = -1 THEN m_currentChatName ELSE {p.name}
         /\ m_currentChatIndex' = IF index = -1 THEN m_currentChatIndex ELSE index
         /\ lastOp' = Op("switchToChat", p.name, TRUE, {}, Len(m_chats), <<>>)
         /\ opCount' = opCount + 1
         /\ UNCHANGED <<m_chats, m_chatNameToIndex, m_sortedIndices,
                        m_chatInferenceJobIdMap, counter, disk, kvFiles, tracked, now,
                        jobGhost, m_mutex, thread, loadTask, pcCallback, toolVars>>

\* chatStreamingCallback on the inference thread, in two steps: getChat hands it
\* a copy under the shared lock (CallbackRead); it changes the copy and calls
\* updateChat or addMessage (CallbackWrite).  No lock is held in between, so
\* operations of the UI thread run between the two.
CallbackRead ==
    /\ Running
    /\ pcCallback = {}
    /\ \E jobId \in JobIds, partialOutput \in Contents, modelName \in ModelNames :
         \E chatName \in getChatNameByJobId(Store, jobId) :
            /\ getChat(Store, chatName) # {}
            /\ \A c \in getChat(Store, chatName) :
                  \/ Len(c.messages) < MaxThread
                  \/ /\ Len(c.messages) = MaxThread
                     /\ c.messages[Len(c.messages)].role = "assistant"
            /\ pcCallback' = {[chatName |-> chatName,
                               index |-> FindByName(m_chats, chatName),
                               chat |-> CHOOSE c \in getChat(Store, chatName) : TRUE,
                               partialOutput |-> partialOutput,
                               modelName |-> modelName]}
    /\ UNCHANGED <<chatVars, m_mutex, thread, pcSwitch, loadTask, toolVars>>

CallbackWrite ==
    \E p \in pcCallback :
      LET r == streamInto(Store, p.chatName, p.chat, p.partialOutput, p.modelName, now)
      IN /\ Becomes(r.s)
         /\ lastOp' = Op("chatStreamingCallback", p.chatName, r.ok, r.out,
                         Len(m_chats), r.s.calls)
         /\ pcCallback' = {}
         /\ opCount' = opCount + 1
         /\ UNCHANGED <<now, jobGhost, m_mutex, thread, pcSwitch, loadTask, toolVars>>

\* the streaming callback beside the UI thread's operations on the chat
NextStream ==
    \/ ProcessInput(Works)
    \/ CallbackRead
    \/ CallbackWrite
    \/ DeleteMessage(InputNames)
    \/ RenameCurrentChat(NewNames, Works)

SpecStream == Init /\ [][NextStream]_vars

\* loadChatsAsync in steps.  Its std::async future is a temporary, so the
\* caller waits in the future's destructor until the task has finished.  The
\* task reads the backend, then takes m_mutex and installs what it read.  The
\* constructor launches it holding no lock; initialize launches it while it
\* holds m_mutex.
LoadTask(caller, chats, at) == [caller |-> caller, chats |-> chats, at |-> at]

\* the store as the constructor's initializers leave it, its load task launched
InitConstructing ==
    /\ now = 1
    /\ opCount = 0
    /\ lastOp = Op("new", EmptyName, TRUE, {}, 0, <<>>)
    /\ jobGhost = NoJobs
    /\ m_mutex = {}
    /\ thread = {}
    /\ pcSwitch = {}
    /\ pcCallback = {}
    /\ ToolsStart
    /\ \E chats \in PersistedStores : loadTask = {LoadTask("ChatManager", chats, 0)}
    /\ m_chats = EmptyStore.m_chats
    /\ m_chatNameToIndex = EmptyStore.m_chatNameToIndex
    /\ m_sortedIndices = EmptyStore.m_sortedIndices
    /\ m_currentChatName = EmptyStore.m_currentChatName
    /\ m_currentChatIndex = EmptyStore.m_currentChatIndex
    /\ m_chatInferenceJobIdMap = EmptyStore.m_chatInferenceJobIdMap
    /\ counter = EmptyStore.counter
    /\ disk = EmptyStore.disk
    /\ kvFiles = EmptyStore.kvFiles
    /\ tracked = EmptyStore.tracked
    /\ crashed = EmptyStore.crashed

\* initialize(persistence): locks, resets the selection, launches the task
Initialize ==
    /\ Running
    /\ loadTask = {}
    /\ m_mutex = {}
    /\ \E chats \in PersistedStores :
         loadTask' = {LoadTask("initialize", chats, 0)}
    /\ m_mutex' = {"initialize"}
    /\ m_currentChatName' = {}
    /\ m_currentChatIndex' = 0
    /\ UNCHANGED <<m_chats, m_chatNameToIndex, m_sortedIndices,
                   m_chatInferenceJobIdMap, counter, disk, kvFiles, tracked,
                   crashed, now, opCount, jobGhost, lastOp, thread, pcSwitch,
                   pcCallback, toolVars>>

\* the task: loadAllChats().get() has returned, the unique_lock is acquired,
\* the chats and the indices are installed, the lock is released
LoadInstall ==
    \E t \in loadTask :
      /\ t.at = 0
      /\ m_mutex = {}
      /\ Becomes(loadChatsAsync(Store, t.chats, now, TRUE))
      /\ loadTask' = {LoadTask(t.caller, t.chats, 1)}
      /\ UNCHANGED <<now, opCount, jobGhost, lastOp, m_mutex, thread, pcSwitch,
                     pcCallback, toolVars>>

\* the task has finished: the destructor of the future returns and so does
\* loadChatsAsync; initialize then returns, unlocking
LoadJoined ==
    \E t \in loadTask :
      /\ t.at = 1
      /\ loadTask' = {}
      /\ m_mutex' = IF t.caller = "initialize" THEN {} ELSE m_mutex
      /\ lastOp' = Op(t.caller, EmptyName, TRUE, {}, Len(m_chats), <<>>)
      /\ opCount' = opCount + 1
      /\ UNCHANGED <<m_chats, m_chatNameToIndex, m_sortedIndices, m_currentChatName,
                     m_currentChatIndex, m_chatInferenceJobIdMap, counter, disk,
                     kvFiles, tracked, crashed, now, jobGhost, thread, pcSwitch,
                     pcCallback, toolVars>>

\* another thread's createNewChat, possible once the singleton is constructed
CreateWhenConstructed ==
    /\ \A t \in loadTask : t.caller # "ChatManager"
    /\ BeginCreateNewChat

\* construction, re-initialization, and chats created in between
NextInitialize ==
    \/ Tick
    \/ Initialize
    \/ LoadInstall
    \/ LoadJoined
    \/ CreateWhenConstructed
    \/ BackendCall
    \/ Return

SpecInitialize == InitConstructing /\ [][NextInitialize]_vars

\* every thread that can take a step eventually takes it
SpecInitializeFair ==
    /\ SpecInitialize
    /\ WF_vars(LoadInstall)
    /\ WF_vars(LoadJoined)
    /\ WF_vars(BackendCall)
    /\ WF_vars(Return)

\* switchToChat on one thread, createNewChat and deleteChat on another
NextRace ==
    \/ BeginCreateNewChat
    \/ BeginDeleteChat
    \/ BackendCall
    \/ Return
    \/ SwitchFind
    \/ SwitchAssign

SpecRace == Init /\ [][NextRace]_vars

\* the write operations that call the backend
NextLocks ==
    \/ BeginCreateNewChat
    \/ BeginDeleteChat
    \/ BeginRenameCurrentChat
    \/ BeginClearCurrentChat
    \/ BeginAddMessageToCurrentChat
    \/ BackendCall
    \/ Return

SpecLocks == Init /\ [][NextLocks]_vars


---------------------------------------------------------------------------
\* ToolManager: inputs, actions and specifications.

ClientTypes == {"SSE", "STDIO"}
Hosts == {"localhost", "remote"}
Ports == {8888, 8889}
Commands == {"", "npx"}
EnvVars == {"{}", "{K}"}
ToolLists == {<<>>, <<"search">>, <<"search", "fetch">>}

\* what initialize() and get_tools() may do
Handshakes == {Value(TRUE), Value(FALSE), Throw(FALSE)}
GetTools == {Value(tools) : tools \in ToolLists} \cup {Throw(<<>>)}

\* sequences of at most n elements of S
SeqsUpTo(S, n) == UNION {[1..k -> S] : k \in 0..n}

\* the calls of a batch: two functions, spans that play no part in execution
BatchCalls == {ToolCall(<<102>>, 0, 0, <<>>), ToolCall(<<103>>, 1, 1, <<>>)}

\* what call_tool() may do
Blocks == {Block({}), Block({"a"}), Block({"b"}), Block({NotAString})}

Responses ==
    {Response("absent", <<>>), Response("other", <<>>)}
      \cup {Response("array", content) : content \in SeqsUpTo(Blocks, MaxBlocks)}

CallOutcomes == {Value(response) : response \in Responses}
                  \cup {Throw(Response("absent", <<>>))}

\* for a batch: a success, an exception, a malformed response
BatchOutcomes ==
    {Value(Response("array", <<Block({"a"})>>)), Throw(Response("absent", <<>>)),
     Value(Response("absent", <<>>))}

ToolDone(r, op, arg) ==
    /\ ToolsBecome(r.s)
    /\ lastTool' = ToolOp(op, arg, r.ret, r.s.transport)

InitializeClient ==
    /\ UNCHANGED <<chatVars, threadVars>>
    /\ \E handshake \in Handshakes, tools \in GetTools :
          LET r == initializeClient(Tools, handshake, tools)
          IN ToolDone(Returns(r.s, Ok(r.ret)), "initializeClient", NoArgs)

SetClientType ==
    /\ UNCHANGED <<chatVars, threadVars>>
    /\ \E type \in ClientTypes :
          ToolDone(Returns(setClientType(Tools, type), Ok(TRUE)), "setClientType",
                   [NoArgs EXCEPT !.type = type])

SetSseEndpoint ==
    /\ UNCHANGED <<chatVars, threadVars>>
    /\ \E host \in Hosts, port \in Ports :
          ToolDone(Returns(setSseEndpoint(Tools, host, port), Ok(TRUE)),
                   "setSseEndpoint", [NoArgs EXCEPT !.host = host, !.port = port])

SetStdioCommand ==
    /\ UNCHANGED <<chatVars, threadVars>>
    /\ \E command \in Commands, envVars \in EnvVars :
          ToolDone(Returns(setStdioCommand(Tools, command, envVars), Ok(TRUE)),
                   "setStdioCommand",
                   [NoArgs EXCEPT !.command = command, !.envVars = envVars])

\* refreshAvailableTools; arg keeps what get_tools() did
RefreshAvailableTools ==
    /\ UNCHANGED <<chatVars, threadVars>>
    /\ \E tools \in GetTools :
          LET r == refreshAvailableTools(Tools, tools)
          IN ToolDone(Returns(r.s, Ok(r.ret)), "refreshAvailableTools",
                      [NoArgs EXCEPT !.tools = tools])

\* executeTools on a batch; arg keeps the calls and what the transport did
ExecuteTools ==
    /\ UNCHANGED <<chatVars, threadVars>>
    /\ \E toolCalls \in SeqsUpTo(BatchCalls, MaxCalls) :
          \E outcomes \in [DOMAIN toolCalls -> BatchOutcomes] :
             LET r == executeTools(Tools, toolCalls, outcomes)
             IN ToolDone(Returns(r.s, Results(r.ret)), "executeTools",
                         [NoArgs EXCEPT !.toolCalls = toolCalls,
                                        !.outcomes = outcomes])

ExecuteToolsAsync ==
    /\ UNCHANGED <<chatVars, threadVars>>
    /\ \E toolCalls \in SeqsUpTo(BatchCalls, MaxCalls) :
          \E outcomes \in [DOMAIN toolCalls -> BatchOutcomes] :
             LET r == executeToolsAsync(Tools, toolCalls, outcomes)
             IN ToolDone(Returns(r.s, Results(r.ret)), "executeToolsAsync",
                         [NoArgs EXCEPT !.toolCalls = toolCalls,
                                        !.outcomes = outcomes])

\* executeTools on one call, over every response
ExecuteOneTool ==
    /\ UNCHANGED <<chatVars, threadVars>>
    /\ \E toolCall \in BatchCalls, outcome \in CallOutcomes :
          LET r == executeTools(Tools, <<toolCall>>, <<outcome>>)
          IN ToolDone(Returns(r.s, Results(r.ret)), "executeTools",
                      [NoArgs EXCEPT !.toolCalls = <<toolCall>>,
                                     !.outcomes = <<outcome>>])

\* the text 1, 2, .., n: every character tells its original position
Text(n) == [i \in 1..n |-> i]

\* spans [start, end] in and out of the bounds of a text of MaxText
\* characters, and one whose end is before its start
Spans ==
    {<<start, end>> \in (0..(MaxText - 1)) \X (0..MaxText) : start <= end}
      \cup {<<1, 0>>}

SpliceCalls ==
    {ToolCall(<<102>>, span[1], span[2], output) :
        span \in Spans, output \in {<<>>, <<121, 122>>}}

ReplaceToolCallsWithResults ==
    /\ lastTool.op = "new"
    /\ \E n \in 0..MaxText, toolCalls \in SeqsUpTo(SpliceCalls, MaxCalls),
       agent \in BOOLEAN :
       \E order \in SortOrders(toolCalls) :
          /\ lastTool' =
               ToolOp("replaceToolCallsWithResults",
                      [NoArgs EXCEPT !.text = Text(n), !.toolCalls = toolCalls,
                                     !.agent = agent],
                      TextOut(replaceToolCallsWithResults(Text(n), toolCalls,
                                                          order, agent)),
                      <<>>)
          /\ UNCHANGED <<chatVars, threadVars, m_clientType, m_sseClient,
                         m_stdioClient, m_sseHost, m_ssePort, m_stdioCommand,
                         m_stdioEnvVars, m_availableTools, m_initialized>>

\* the entries a tool_calls array is made of, by kind: three well-formed
\* calls (arguments an object, an object with a number, a string), one
\* without name, one without arguments, one whose name is a number
EntryKinds == {"f", "g", "h", "noName", "noArgs", "numName"}

Member(key, value) == Quoted(key) \o <<Colon>> \o value

Object(members) == <<LBrace>> \o Join(members) \o <<RBrace>>

EntryText(kind) ==
    CASE kind = "f" ->
           Object(<<Member(K_name, Quoted(<<102>>)), Member(K_arguments, Object(<<>>))>>)
      [] kind = "g" ->
           Object(<<Member(K_name, Quoted(<<103>>)),
                    Member(K_arguments, Object(<<Member(<<113>>, <<49>>)>>))>>)
      [] kind = "h" ->
           Object(<<Member(K_name, Quoted(<<104>>)),
                    Member(K_arguments, Quoted(<<120>>))>>)
      [] kind = "noName" -> Object(<<Member(K_arguments, Object(<<>>))>>)
      [] kind = "noArgs" -> Object(<<Member(K_name, Quoted(<<102>>))>>)
      [] kind = "numName" ->
           Object(<<Member(K_name, <<49>>), Member(K_arguments, Object(<<>>))>>)

Docs ==
    {Doc(meta, entries, closed, fenced) :
        meta \in BOOLEAN, entries \in SeqsUpTo(EntryKinds, MaxEntries),
        closed \in BOOLEAN, fenced \in BOOLEAN}

\* the text of a response
EnvelopeText(doc) ==
    (IF doc.fenced THEN Fence ELSE <<>>)
      \o <<LBrace>>
      \o (IF doc.meta THEN Member(K_meta, Object(<<>>)) \o <<Comma>> ELSE <<>>)
      \o Member(K_tool_calls,
                <<LBracket>>
                  \o Join([i \in DOMAIN doc.entries |-> EntryText(doc.entries[i])])
                  \o <<RBracket>>)
      \o (IF doc.closed THEN <<RBrace>> ELSE <<>>)
      \o (IF doc.fenced THEN Fence ELSE <<>>)

\* extractToolCalls on the text of a response
ExtractToolCalls ==
    /\ lastTool.op = "new"
    /\ \E doc \in Docs :
          lastTool' =
            ToolOp("extractToolCalls",
                   [NoArgs EXCEPT !.text = EnvelopeText(doc), !.doc = doc],
                   Calls(extractToolCalls(EnvelopeText(doc))), <<>>)
    /\ UNCHANGED <<chatVars, threadVars, m_clientType, m_sseClient,
                   m_stdioClient, m_sseHost, m_ssePort, m_stdioCommand,
                   m_stdioEnvVars, m_availableTools, m_initialized>>

\* what a model writes before and after the envelope: nothing, a brace, a quote
Prefixes == {<<>>, <<LBrace>>, <<Quote>>, <<Space>>}
Suffixes == {<<>>, <<RBrace>>}

EnvelopeTexts ==
    {prefix \o EnvelopeText(doc) \o suffix :
        prefix \in Prefixes, suffix \in Suffixes,
        doc \in {d \in Docs : Len(d.entries) <= 1}}

\* the pieces of a response with bracketed calls: brackets, the calls f() and
\* g(q=1), a letter, an opening parenthesis, a line break
Tokens ==
    {<<LBracket>>, <<RBracket>>, <<102, LParen, RParen>>,
     <<103, LParen, 113, Equals, 49, RParen>>, <<120>>, <<LParen>>, <<Newline>>}

RECURSIVE Concat(_)
Concat(parts) == IF parts = <<>> THEN <<>> ELSE Head(parts) \o Concat(Tail(parts))

BracketTexts == {Concat(parts) : parts \in SeqsUpTo(Tokens, MaxTokens)}

\* what the streaming callback asks of a partial output: whether it contains a
\* tool call, and the calls extraction finds in it
DetectToolCalls ==
    /\ lastTool.op = "new"
    /\ \E agent \in BOOLEAN :
         \E text \in IF agent THEN EnvelopeTexts ELSE BracketTexts :
            lastTool' =
              ToolOp("containsToolCall",
                     [NoArgs EXCEPT !.text = text, !.agent = agent],
                     [Calls(IF agent THEN extractToolCalls(text)
                            ELSE Bracketed_extractToolCalls(text))
                        EXCEPT !.ok = IF agent THEN containsToolCall(text)
                                      ELSE Bracketed_containsToolCall(text)],
                     <<>>)
    /\ UNCHANGED <<chatVars, threadVars, m_clientType, m_sseClient,
                   m_stdioClient, m_sseHost, m_ssePort, m_stdioCommand,
                   m_stdioEnvVars, m_availableTools, m_initialized>>

\* the instants of messages: two seconds, with and without a part of a second
TimePoints == {TimePoint(sec, frac) : sec \in 0..1, frac \in 0..1}

\* the messages of a stored chat
StoredMessages ==
    {StoredMessage(1, isLiked, FALSE, role, "x", timestamp, tps, modelName, toolCalls) :
        isLiked \in BOOLEAN, role \in {"user", "assistant"},
        timestamp \in TimePoints, tps \in 0..1, modelName \in {"", "m"},
        toolCalls \in {<<>>, <<ToolCall(<<102>>, 0, 0, <<>>)>>}}

StoredChats ==
    {ChatHistory(1, 1, NameA, messages) :
        messages \in SeqsUpTo(StoredMessages, MaxMsgs)}

\* the role strings a caller may pass
Roles == {"user", "assistant", "tool", "system", ""}

\* a chat is serialized and read back, as saveChat and loadAllChats do
\* through to_json and from_json
SerializeChat ==
    /\ lastTool.op = "new"
    /\ \E chat \in StoredChats, isdst \in BOOLEAN :
          lastTool' =
            ToolOp("from_json", [NoArgs EXCEPT !.chat = chat, !.isdst = isdst],
                   [Ok(TRUE) EXCEPT
                      !.chat = ChatHistory_from_json(ChatHistory_to_json(chat, isdst))],
                   <<>>)
    /\ UNCHANGED <<chatVars, threadVars, m_clientType, m_sseClient,
                   m_stdioClient, m_sseHost, m_ssePort, m_stdioCommand,
                   m_stdioEnvVars, m_availableTools, m_initialized>>

\* a Message is constructed
ConstructMessage ==
    /\ lastTool.op = "new"
    /\ \E id \in 0..1, role \in Roles, content \in {"", "x"}, isLiked \in BOOLEAN,
          timestamp \in TimePoints :
          lastTool' =
            ToolOp("Message",
                   [NoArgs EXCEPT
                      !.message = [NoMessage EXCEPT !.id = id, !.role = role,
                                                    !.content = content,
                                                    !.isLiked = isLiked,
                                                    !.timestamp = timestamp]],
                   [Ok(TRUE) EXCEPT
                      !.message = MessageCtor(id, role, content, isLiked, FALSE,
                                              timestamp)],
                   <<>>)
    /\ UNCHANGED <<chatVars, threadVars, m_clientType, m_sseClient,
                   m_stdioClient, m_sseHost, m_ssePort, m_stdioCommand,
                   m_stdioEnvVars, m_availableTools, m_initialized>>

\* a ToolManager beside a ChatManager that loaded an empty store
InitTools == InitWith({<<>>}, Works, FALSE)

\* client management
NextConfig ==
    \/ InitializeClient
    \/ SetClientType
    \/ SetSseEndpoint
    \/ SetStdioCommand

SpecConfig == InitTools /\ [][NextConfig]_vars

\* execution of batches
NextExec ==
    \/ InitializeClient
    \/ SetClientType
    \/ ExecuteTools
    \/ ExecuteToolsAsync

SpecExec == InitTools /\ [][NextExec]_vars

\* execution of one call over every response
NextResponse ==
    \/ InitializeClient
    \/ ExecuteOneTool

SpecResponse == InitTools /\ [][NextResponse]_vars

\* the tool catalog
NextCatalog ==
    \/ InitializeClient
    \/ SetClientType
    \/ RefreshAvailableTools

SpecCatalog == InitTools /\ [][NextCatalog]_vars

\* replaceToolCallsWithResults, a function of its arguments
NextCodec ==
    \/ SerializeChat
    \/ ConstructMessage

SpecCodec == InitTools /\ [][NextCodec]_vars

NextExtract == ExtractToolCalls

SpecExtract == InitTools /\ [][NextExtract]_vars

NextDetect == DetectToolCalls

SpecDetect == InitTools /\ [][NextDetect]_vars

NextSplice == ReplaceToolCallsWithResults

SpecSplice == InitTools /\ [][NextSplice]_vars

---------------------------------------------------------------------------
\* Properties.

\* the step is the return of operation op
OpStep(op) == opCount' = opCount + 1 /\ lastOp'.op = op

\* the chat createDefaultChat synthesizes at time t
DefaultChat(t) == ChatHistory(1, t, DEFAULT_CHAT_NAME, <<>>)

ChatNames(chats) == {chats[i].name : i \in DOMAIN chats}

\* some call of the log, among those named, failed
Failed(calls, which) == \E i \in DOMAIN calls : calls[i].call \in which /\ ~calls[i].ok

\* C1: after any public operation has returned, the three structures agree:
\* every position i of m_chats is what m_chatNameToIndex gives for its name and
\* has exactly one entry in m_sortedIndices, carrying its name and its
\* lastModified; and neither index holds anything else.
C1_IndicesAgree ==
    ~crashed =>
      /\ \A i \in 0..(Len(m_chats) - 1) :
           LET c == At(m_chats, i)
           IN /\ c.name \in DOMAIN m_chatNameToIndex
              /\ m_chatNameToIndex[c.name] = i
              /\ Cardinality({e \in m_sortedIndices : e.index = i}) = 1
              /\ \A e \in m_sortedIndices :
                   e.index = i => e.name = c.name /\ e.lastModified = c.lastModified
      /\ \A n \in DOMAIN m_chatNameToIndex :
           /\ m_chatNameToIndex[n] < Len(m_chats)
           /\ At(m_chats, m_chatNameToIndex[n]).name = n
      /\ \A e \in m_sortedIndices : e.index < Len(m_chats)

\* C2: after any sequence of createNewChat, renameCurrentChat and addMessage,
\* getChats() is sorted by the chats' current lastModified descending, ties by
\* name ascending.
C2_GetChatsSorted ==
    LET l == getChats(Store)
    IN \A i, j \in DOMAIN l :
         i < j => ~ChatIndexLess(ChatIndex(l[j].lastModified, 0, l[j].name),
                                 ChatIndex(l[i].lastModified, 0, l[i].name))

C4_JobsSurviveDelete ==
    [][(OpStep("deleteChat") /\ lastOp'.name \in DOMAIN m_chatNameToIndex /\ ~crashed') =>
         /\ \A c \in DOMAIN m_chatNameToIndex \ {lastOp'.name} :
              getJobId(Store', c).value = getJobId(Store, c).value
         /\ \A j \in JobIds : \A c \in DOMAIN m_chatNameToIndex \ {lastOp'.name} :
              getChatNameByJobId(Store, j) = {c} => getChatNameByJobId(Store', j) = {c}
      ]_vars

\* C5: no read observes an empty chat collection: m_chats holds at least one
\* chat, and so does the list getChats() returns.
C5_NeverEmpty ==
    ~crashed => Len(m_chats) >= 1 /\ Len(getChats(Store)) >= 1

\* C6: deleteChat(name) on the only chat leaves exactly one chat, the
\* synthesized default chat, and getCurrentChat() returns it: the current name
\* and the current index designate it.
C6_DeleteOnlyChat ==
    [][(OpStep("deleteChat") /\ Len(m_chats) = 1
          /\ lastOp'.name \in DOMAIN m_chatNameToIndex) =>
         /\ m_chats' = <<DefaultChat(now)>>
         /\ getCurrentChat(Store') = {DefaultChat(now)}
         /\ m_currentChatName' = {DEFAULT_CHAT_NAME}
         /\ m_currentChatIndex' = 0
         /\ m_chatNameToIndex' = MapPut(<<>>, DEFAULT_CHAT_NAME, 0)
      ]_vars

\* the only chat, which was not the default chat, has been deleted
C6_Witness ==
    /\ lastOp.op = "deleteChat"
    /\ lastOp.size = 1
    /\ lastOp.name # DEFAULT_CHAT_NAME
    /\ lastOp.ok
    /\ getCurrentChat(Store) = {DefaultChat(now)}

\* C7: createNewChat(N) with N in the store and "N (1)" not in it returns
\* "N (1)", and both names are in getChats() afterwards.
C7_FirstSuffixIsOne ==
    [][(OpStep("createNewChat")
          /\ lastOp'.name \in DOMAIN m_chatNameToIndex
          /\ Suffixed(lastOp'.name, 1) \notin DOMAIN m_chatNameToIndex) =>
         /\ lastOp'.out = {Suffixed(lastOp'.name, 1)}
         /\ {lastOp'.name, Suffixed(lastOp'.name, 1)} \subseteq ChatNames(getChats(Store'))
      ]_vars

\* C8: after any sequence of createNewChat and renameCurrentChat every chat
\* name is non-empty, at most 256 characters long, and the name of one chat only.
C8_NamesValid ==
    \A i \in DOMAIN m_chats :
      /\ m_chats[i].name # <<>>
      /\ Len(m_chats[i].name) <= MaxNameLen
      /\ \A j \in DOMAIN m_chats : j # i => m_chats[j].name # m_chats[i].name

\* C9: after deleteChat(name) on a store of more than one chat, the current
\* chat is the remaining chat of greatest lastModified when the deleted chat
\* was current, and otherwise the chat it was, at its index or, when the
\* deleted chat stood before it, one below.
C9_CurrentAfterDelete ==
    [][(OpStep("deleteChat") /\ Len(m_chats) > 1
          /\ lastOp'.name \in DOMAIN m_chatNameToIndex /\ ~crashed') =>
         IF m_currentChatName = {lastOp'.name}
         THEN \E c \in getCurrentChat(Store') :
                \A i \in DOMAIN m_chats' : m_chats'[i].lastModified <= c.lastModified
         ELSE /\ getCurrentChat(Store') = getCurrentChat(Store)
              /\ getCurrentChat(Store') # {}
              /\ m_currentChatIndex' =
                   IF m_chatNameToIndex[lastOp'.name] < m_currentChatIndex
                   THEN m_currentChatIndex - 1 ELSE m_currentChatIndex
      ]_vars

\* C10: deleteChat(name) returns false when the backend fails to delete the
\* transcript or the cache file, and the chat is removed from m_chats all the
\* same; for an unknown name it returns false, makes no call on the backend
\* and leaves the store and the backend as they were.
C10_DeleteFailure ==
    [][OpStep("deleteChat") =>
         IF lastOp'.name \notin DOMAIN m_chatNameToIndex
         THEN ~lastOp'.ok /\ lastOp'.calls = <<>> /\ Store' = Store
         ELSE Failed(lastOp'.calls, {"deleteChat", "deleteKvChat"}) =>
                /\ ~lastOp'.ok
                /\ m_chats' = IF Len(m_chats) = 1 THEN <<DefaultChat(now)>>
                              ELSE RemoveAt(m_chats, m_chatNameToIndex[lastOp'.name])
      ]_vars

\* deleting the cache file failed, and the chat is gone from the store
C10_Witness ==
    /\ lastOp.op = "deleteChat"
    /\ ~lastOp.ok
    /\ Failed(lastOp.calls, {"deleteKvChat"})
    /\ lastOp.size > 1
    /\ lastOp.name \notin DOMAIN m_chatNameToIndex
    /\ Len(m_chats) = lastOp.size - 1

\* C11: switchToChat(name) with an unknown name returns false and changes
\* neither the selection nor any chat; with a known name it returns true, the
\* current name is name and the current index its position, getCurrentChat()
\* is that chat, no chat changes and no call is made on the backend.
C11_SwitchToChat ==
    [][OpStep("switchToChat") =>
         /\ m_chats' = m_chats
         /\ m_chatNameToIndex' = m_chatNameToIndex
         /\ m_sortedIndices' = m_sortedIndices
         /\ lastOp'.calls = <<>>
         /\ disk' = disk /\ kvFiles' = kvFiles
         /\ IF lastOp'.name \notin DOMAIN m_chatNameToIndex
            THEN /\ ~lastOp'.ok
                 /\ m_currentChatName' = m_currentChatName
                 /\ m_currentChatIndex' = m_currentChatIndex
            ELSE /\ lastOp'.ok
                 /\ m_currentChatName' = {lastOp'.name}
                 /\ m_currentChatIndex' = m_chatNameToIndex[lastOp'.name]
                 /\ \A c \in getCurrentChat(Store') : c.name = lastOp'.name
                 /\ getCurrentChat(Store') # {}
      ]_vars

\* a chat other than the one at position 0 has been selected
C11_Witness ==
    /\ lastOp.op = "switchToChat"
    /\ lastOp.ok
    /\ m_currentChatIndex > 0
    /\ m_currentChatName = {lastOp.name}
    /\ \E c \in getCurrentChat(Store) : c.name = lastOp.name

\* C12: once a switchToChat and a createNewChat or deleteChat running on two
\* threads have both returned, the current name is the name of a chat of the
\* store and the current index is that chat's position.
C12_CurrentChatAfterRace ==
    (thread = {} /\ pcSwitch = {} /\ ~crashed) =>
      \A n \in m_currentChatName :
        /\ n \in DOMAIN m_chatNameToIndex
        /\ m_chatNameToIndex[n] = m_currentChatIndex
        /\ m_currentChatIndex < Len(m_chats)
        /\ At(m_chats, m_currentChatIndex).name = n

\* C13: while createNewChat, renameCurrentChat, clearCurrentChat, deleteChat
\* or addMessageToCurrentChat has a call on the backend in progress, it does
\* not hold m_mutex.
C13_NoBackendCallUnderLock ==
    \A th \in thread : th.at >= 1 => m_mutex # {th.op}

\* the step is the return of the ToolManager operation op
ToolStep(op) == lastTool'.op = op

\* the step changes the transport configuration: the client type, the SSE
\* host or port, or the STDIO command or environment
ConfigChange ==
    \/ ToolStep("setClientType") /\ lastTool'.arg.type # m_clientType
    \/ ToolStep("setSseEndpoint")
         /\ (lastTool'.arg.host # m_sseHost \/ lastTool'.arg.port # m_ssePort)
    \/ ToolStep("setStdioCommand")
         /\ (lastTool'.arg.command # m_stdioCommand
               \/ lastTool'.arg.envVars # m_stdioEnvVars)

\* C14: isInitialized() is false after every change of the transport
\* configuration, whichever client type is active.
C14_ConfigChangeResets ==
    [][ConfigChange => ~isInitialized(Tools')]_vars

\* the calls of a log that are calls of method
CallsOf(transport, method) ==
    SelectSeq(transport, LAMBDA c : c.method = method)

\* C15: whenever initializeClient() returns false, isInitialized() is false
\* afterwards, and the handshake was tried once.
C15_FailedInitIsUninitialized ==
    [][(ToolStep("initializeClient") /\ ~lastTool'.ret.ok) =>
         /\ ~isInitialized(Tools')
         /\ Len(CallsOf(lastTool'.transport, "initialize")) = 1
      ]_vars

\* the step is the return of executeTools or executeToolsAsync
ExecuteStep == ToolStep("executeTools") \/ ToolStep("executeToolsAsync")

\* C16: when the engine is not initialized, executeTools(calls) returns for
\* every call a result with success = false and the error "MCP client not
\* initialized", and makes no call on either client.
C16_UninitializedExecution ==
    [][(ExecuteStep /\ ~isInitialized(Tools)) =>
         /\ lastTool'.transport = <<>>
         /\ Len(lastTool'.ret.results) = Len(lastTool'.arg.toolCalls)
         /\ \A i \in DOMAIN lastTool'.ret.results :
              /\ ~lastTool'.ret.results[i].success
              /\ lastTool'.ret.results[i].error = "MCP client not initialized"
      ]_vars

\* a batch of two calls was refused by an engine whose client exists but
\* whose handshake failed
C16_Witness ==
    /\ lastTool.op = "executeTools"
    /\ ~m_initialized
    /\ m_sseClient # {}
    /\ Len(lastTool.ret.results) = 2
    /\ \A i \in DOMAIN lastTool.ret.results :
         lastTool.ret.results[i].error = "MCP client not initialized"

\* C17: executeTools and executeToolsAsync return one result per call, in the
\* order of the calls, r[i].toolCall = calls[i]; every call is dispatched
\* whatever became of the calls before it; and the async form returns what the
\* sync form returns for the same calls and transport outcomes.
C17_BatchNeverAborts ==
    [][ExecuteStep =>
         LET toolCalls == lastTool'.arg.toolCalls
             r == lastTool'.ret.results
             dispatched == CallsOf(lastTool'.transport, "call_tool")
         IN /\ Len(r) = Len(toolCalls)
            /\ \A i \in DOMAIN toolCalls : r[i].toolCall = toolCalls[i]
            /\ isInitialized(Tools) =>
                 /\ Len(dispatched) = Len(toolCalls)
                 /\ \A i \in DOMAIN toolCalls :
                      dispatched[i].arg = toolCalls[i].func_name
            /\ r = executeTools(Tools, toolCalls, lastTool'.arg.outcomes).ret
      ]_vars

\* an async batch whose first call failed and whose second call succeeded
C17_Witness ==
    /\ lastTool.op = "executeToolsAsync"
    /\ Len(lastTool.ret.results) = 2
    /\ ~lastTool.ret.results[1].success
    /\ lastTool.ret.results[2].success
    /\ Len(lastTool.transport) = 2

\* the texts of the blocks that carry one, in the order of the blocks
RECURSIVE TextsOf(_)
TextsOf(content) ==
    IF content = <<>> THEN <<>>
    ELSE (IF Head(content).text = {} THEN <<>> ELSE <<Head(content).text>>)
           \o TextsOf(Tail(content))

\* C18: on a call that returned, the result text is the text of the first
\* content block that carries one, whatever its position, and the result
\* is failed with an invalid-response-format error only when no block carries
\* a text (texts that are strings).
C18_FirstBlockWithText ==
    [][(ToolStep("executeTools") /\ isInitialized(Tools)
          /\ Len(lastTool'.arg.toolCalls) = 1
          /\ ~lastTool'.arg.outcomes[1].throws
          /\ \A i \in DOMAIN lastTool'.arg.outcomes[1].value.content :
               lastTool'.arg.outcomes[1].value.content[i].text # {NotAString}) =>
         LET response == lastTool'.arg.outcomes[1].value
             texts == IF response.kind = "array" THEN TextsOf(response.content)
                      ELSE <<>>
             r == lastTool'.ret.results[1]
         IN IF texts # <<>>
            THEN r.success /\ {r.result} = texts[1]
            ELSE ~r.success /\ r.error = "Invalid response format from tool call"
      ]_vars

\* C19: refreshAvailableTools() either returns true with the cached catalog
\* equal to the list the connected client returned, or returns false with
\* the cached catalog as it was; it returns false when the engine is not
\* initialized and when get_tools() throws, and true otherwise.
C19_RefreshAllOrNothing ==
    [][ToolStep("refreshAvailableTools") =>
         IF isInitialized(Tools) /\ ~lastTool'.arg.tools.throws
         THEN /\ lastTool'.ret.ok
              /\ m_availableTools' = lastTool'.arg.tools.value
              /\ Len(CallsOf(lastTool'.transport, "get_tools")) = 1
         ELSE /\ ~lastTool'.ret.ok
              /\ m_availableTools' = m_availableTools
      ]_vars

\* a refresh failed on an initialized engine, get_tools() having thrown, and
\* the catalog cached before it is still there
C19_Witness ==
    /\ lastTool.op = "refreshAvailableTools"
    /\ ~lastTool.ret.ok
    /\ lastTool.arg.tools.throws
    /\ Len(CallsOf(lastTool.transport, "get_tools")) = 1
    /\ m_availableTools # <<>>

\* the spans of the calls are inside the text and no two of them overlap
SpansDisjointInBounds(text, toolCalls) ==
    /\ \A i \in DOMAIN toolCalls :
         /\ 0 <= toolCalls[i].start_index
         /\ toolCalls[i].start_index <= toolCalls[i].end_index
         /\ toolCalls[i].end_index < Len(text)
    /\ \A i, j \in DOMAIN toolCalls :
         i # j => \/ toolCalls[i].end_index < toolCalls[j].start_index
                  \/ toolCalls[j].end_index < toolCalls[i].start_index

\* the text read from position pos (0-based) on, where the first position of
\* a span gives the rendering of its call, the other positions of a span
\* give nothing and every other position gives its character
RECURSIVE SplicedFrom(_, _, _, _)
SplicedFrom(text, toolCalls, agent, pos) ==
    IF pos >= Len(text) THEN <<>>
    ELSE LET starting == {i \in DOMAIN toolCalls : toolCalls[i].start_index = pos}
             covering == {i \in DOMAIN toolCalls :
                             /\ toolCalls[i].start_index <= pos
                             /\ pos <= toolCalls[i].end_index}
         IN (IF starting # {}
               THEN Rendering(toolCalls[CHOOSE i \in starting : TRUE], agent)
             ELSE IF covering # {} THEN <<>>
             ELSE <<text[pos + 1]>>)
              \o SplicedFrom(text, toolCalls, agent, pos + 1)

\* C20: for calls whose spans are in bounds and pairwise disjoint,
\* replaceToolCallsWithResults(text, calls) is text with each span replaced by
\* the rendering of its call and every other character kept in its order,
\* whatever the order of the calls; with no calls it is text.
C20_SpliceOnlySpans ==
    [][ToolStep("replaceToolCallsWithResults") =>
         LET text == lastTool'.arg.text
             toolCalls == lastTool'.arg.toolCalls
         IN /\ SpansDisjointInBounds(text, toolCalls) =>
                 lastTool'.ret.text =
                   SplicedFrom(text, toolCalls, lastTool'.arg.agent, 0)
            /\ toolCalls = <<>> => lastTool'.ret.text = text
      ]_vars

\* two disjoint spans were replaced that came with the earlier span first,
\* by an output longer than the first span and an empty one
C20_Witness ==
    /\ lastTool.op = "replaceToolCallsWithResults"
    /\ Len(lastTool.arg.toolCalls) = 2
    /\ SpansDisjointInBounds(lastTool.arg.text, lastTool.arg.toolCalls)
    /\ lastTool.arg.toolCalls[1].end_index < lastTool.arg.toolCalls[2].start_index
    /\ Len(lastTool.arg.toolCalls[1].output) >
         lastTool.arg.toolCalls[1].end_index - lastTool.arg.toolCalls[1].start_index + 1
    /\ lastTool.arg.toolCalls[2].output = <<>>
    /\ ~lastTool.arg.agent
    /\ lastTool.ret.text = <<121, 122, 2>>

\* the entries of a tool_calls array that carry a string name and arguments
WellFormed == {"f", "g", "h"}

EntryName(kind) == CASE kind = "f" -> <<102>> [] kind = "g" -> <<103>>
                     [] kind = "h" -> <<104>>

\* the names of the well-formed entries, in array order
NamesOf(entries) ==
    LET kept == SelectSeq(entries, LAMBDA kind : kind \in WellFormed)
    IN [i \in DOMAIN kept |-> EntryName(kept[i])]

Extracted == [i \in DOMAIN lastTool.ret.calls |-> lastTool.ret.calls[i].func_name]

\* C21: extractToolCalls finds the envelope around the "tool_calls" key also
\* when a complete nested object precedes the key inside it: from a balanced
\* envelope whose entries are all well-formed, the calls of the entries are
\* returned in order.
C21_EnvelopeFound ==
    (/\ lastTool.op = "extractToolCalls"
     /\ lastTool.arg.doc.closed
     /\ \A i \in DOMAIN lastTool.arg.doc.entries :
          lastTool.arg.doc.entries[i] \in WellFormed)
      => Extracted = NamesOf(lastTool.arg.doc.entries)

\* C22: from a balanced envelope extractToolCalls returns the well-formed
\* entries in array order, skipping every entry with a missing name, missing
\* arguments or a name that is no string; the envelope being the whole
\* object around the key (no nested object before it).
C22_MalformedEntriesSkipped ==
    (/\ lastTool.op = "extractToolCalls"
     /\ lastTool.arg.doc.closed
     /\ ~lastTool.arg.doc.meta)
      => Extracted = NamesOf(lastTool.arg.doc.entries)

\* C23: a chat read back from its serialized form equals the chat that was
\* serialized, field for field, messages and their toolCalls included.
C23_RoundTrip ==
    lastTool.op = "from_json" => lastTool.ret.chat = lastTool.arg.chat

\* C24: the Message constructor succeeds exactly when the role is user,
\* assistant or tool, and the Message it gives carries the arguments.
C24_RolesAtConstruction ==
    lastTool.op = "Message" =>
      /\ ~lastTool.ret.message.throws <=>
           lastTool.arg.message.role \in {"user", "assistant", "tool"}
      /\ ~lastTool.ret.message.throws =>
           lastTool.ret.message.value = lastTool.arg.message

---------------------------------------------------------------------------
\* C25: within one chat, message ids are pairwise distinct and increase in
\* message order, after any sequence of user inputs, streaming callbacks and
\* deleteMessage calls.
C25_MessageIdsIncrease ==
    \A c \in DOMAIN m_chats :
       \A i, j \in DOMAIN m_chats[c].messages :
          i < j => m_chats[c].messages[i].id < m_chats[c].messages[j].id


\* C26: addMessage(chatName, msg) has on the named chat the effect that
\* addMessageToCurrentChat(msg) has on the current chat: the message is
\* appended, lastModified is bumped, the recency index is re-keyed to the new
\* timestamp and a save of the updated chat is triggered.
C26_AddMessageLikeCurrent ==
    [][OpStep("addMessage") /\ FindByName(m_chats, lastOp'.name) # -1 =>
         LET it == FindByName(m_chats, lastOp'.name)
             message == m_chats'[it + 1].messages[Len(m_chats'[it + 1].messages)]
             asCurrent == [Store EXCEPT !.m_currentChatName = {lastOp'.name},
                                        !.m_currentChatIndex = it]
             expected == addMessageToCurrentChat(asCurrent, message, now, TRUE).s
         IN /\ Len(m_chats'[it + 1].messages) = Len(m_chats[it + 1].messages) + 1
            /\ m_chats' = expected.m_chats
            /\ m_sortedIndices' = expected.m_sortedIndices
            /\ lastOp'.calls = expected.calls]_vars


\* C27: setMessageModelName on a chat name that is unknown, or on a chat with
\* no messages, reports the failure, changes nothing and does not read through
\* an invalid chat reference (the process keeps running); on a chat with
\* messages a successful call changes model names and lastModified only.
C27_ModelNameTargetChecked ==
    [][OpStep("setMessageModelName") =>
         LET it == FindByName(m_chats, lastOp'.name)
         IN IF it = -1 \/ At(m_chats, IF it = -1 THEN 0 ELSE it).messages = <<>>
            THEN ~crashed' /\ ~lastOp'.ok /\ Store' = Store
            ELSE /\ ~crashed'
                 /\ lastOp'.ok =>
                      \A i \in DOMAIN m_chats[it + 1].messages :
                         [m_chats'[it + 1].messages[i] EXCEPT !.modelName = ""]
                           = [m_chats[it + 1].messages[i] EXCEPT !.modelName = ""]]_vars


\* C28: for a chat of the store whose position has no entry in the job map (it
\* was never given a job id), getJobId(chatName) returns the no-job sentinel -1,
\* and so does getCurrentJobId() when that chat is the current one.
C28_UnsetJobIsSentinel ==
    [][/\ OpStep("getJobId")
          /\ lastOp'.name \in DOMAIN m_chatNameToIndex
          /\ m_chatNameToIndex[lastOp'.name] \notin DOMAIN m_chatInferenceJobIdMap
          => lastOp'.value = -1
       /\ OpStep("getCurrentJobId")
          /\ getCurrentChat(Store) # {}
          /\ m_currentChatIndex \notin DOMAIN m_chatInferenceJobIdMap
          => lastOp'.value = -1]_vars


\* C29: a renameCurrentChat that reached the persistence backend returns false
\* whenever saving under the new name, deleting the old transcript or renaming
\* the key-value cache file failed, and the in-memory rename stays either way.
C29_RenameSurfacesFailure ==
    [][OpStep("renameCurrentChat") /\ lastOp'.calls # <<>> =>
         /\ Failed(lastOp'.calls, {"saveChat", "deleteChat", "renameKvChat"})
               => ~lastOp'.ok
         /\ m_currentChatName' = lastOp'.out
         /\ lastOp'.out \subseteq DOMAIN m_chatNameToIndex']_vars


\* C30: after any sequence of public operations, a current chat name that is
\* set names a chat of the store, m_chatNameToIndex maps it to
\* m_currentChatIndex, and the chat at m_currentChatIndex carries it.
C30_CurrentChatConsistent ==
    ~crashed =>
      \A n \in m_currentChatName :
        /\ \E i \in DOMAIN m_chats : m_chats[i].name = n
        /\ n \in DOMAIN m_chatNameToIndex
        /\ m_chatNameToIndex[n] = m_currentChatIndex
        /\ \E c \in getCurrentChat(Store) : c.name = n


\* C31: initialize(persistence) eventually returns: once it has been called,
\* its load task finishes and the call comes back.
C31_InitializeReturns ==
    (\E t \in loadTask : t.caller = "initialize")
      ~> (loadTask = {} /\ lastOp.op = "initialize")


\* C32: getChats() returns every chat of the store exactly once: the list is
\* as long as m_chats and holds each chat name of the store once.
C32_GetChatsComplete ==
    ~crashed =>
      LET l == getChats(Store)
      IN /\ Len(l) = Len(m_chats)
         /\ \A i \in DOMAIN m_chats :
              Cardinality({k \in DOMAIN l : l[k].name = m_chats[i].name}) = 1


\* the messages of a chat once text has been streamed into it: the content of
\* a trailing assistant message replaced, or an assistant message appended
StreamedInto(messages, text) ==
    IF messages # <<>> /\ messages[Len(messages)].role = "assistant"
    THEN {[messages EXCEPT ![Len(messages)].content = text]}
    ELSE {Append(messages, Message(id, "assistant", text, modelName)) :
            id \in 1..(MaxThread + 1), modelName \in ModelNames}

\* C33: when a streaming callback that read its copy of the chat earlier
\* writes it back, the chat afterwards is the chat as the other thread left it
\* with the streamed text in its last assistant message, and its name is the
\* one the name index has for its position.
C33_StreamKeepsConcurrentChange ==
    [][\A p \in pcCallback :
         pcCallback' = {} =>
           /\ m_chats'[p.index + 1].messages
                 \in StreamedInto(m_chats[p.index + 1].messages, p.partialOutput)
           /\ m_chats'[p.index + 1].name \in DOMAIN m_chatNameToIndex'
           /\ m_chatNameToIndex'[m_chats'[p.index + 1].name] = p.index]_vars


\* C34: whenever initializeClient() returns true, the client of the active
\* type was created from the configuration in force: the SSE client from the
\* current host and port, the STDIO client from the current command and
\* environment.
C34_ClientFromCurrentConfig ==
    [][(ToolStep("initializeClient") /\ lastTool'.ret.ok) =>
         IF m_clientType' = "SSE"
         THEN m_sseClient' = {[host |-> m_sseHost', port |-> m_ssePort']}
         ELSE m_stdioClient' = {[command |-> m_stdioCommand',
                                 env |-> m_stdioEnvVars']}
      ]_vars


\* C35: every position recorded in the job map with a job id is a valid
\* position of m_chats, so getChatNameByJobId never indexes m_chats outside
\* its bounds.
C35_JobPositionsInBounds ==
    ~crashed =>
      \A chatIndex \in DOMAIN m_chatInferenceJobIdMap :
         m_chatInferenceJobIdMap[chatIndex] \in JobIds => chatIndex < Len(m_chats)


\* C36: getCurrentJobId and getJobId, which take only the shared lock, leave
\* the store as it was: the chats, the indices, the current selection and the
\* job map.
C36_ReadersChangeNothing ==
    [][(OpStep("getCurrentJobId") \/ OpStep("getJobId")) =>
         /\ m_chatInferenceJobIdMap' = m_chatInferenceJobIdMap
         /\ UNCHANGED <<m_chats, m_chatNameToIndex, m_sortedIndices,
                        m_currentChatName, m_currentChatIndex>>]_vars


\* C37: detection never hides an extractable call: whenever extractToolCalls
\* finds at least one call in a text, containsToolCall is true of that text,
\* in the JSON-envelope engine and in the bracketed-call engine.
C37_DetectionCoversExtraction ==
    lastTool.op = "containsToolCall" =>
      (lastTool.ret.calls # <<>> => lastTool.ret.ok)


\* C38: when deleteChat of the only remaining chat returns true and every
\* call it made on the persistence backend succeeded, the backend holds the
\* transcript of the synthesized default chat afterwards, also when the chat
\* deleted carried the default chat name.
C38_DefaultChatPersisted ==
    [][(OpStep("deleteChat") /\ Len(m_chats) = 1
          /\ lastOp'.name \in DOMAIN m_chatNameToIndex
          /\ lastOp'.ok
          /\ \A i \in DOMAIN lastOp'.calls : lastOp'.calls[i].ok) =>
         /\ ChatNames(m_chats') = {DEFAULT_CHAT_NAME}
         /\ DEFAULT_CHAT_NAME \in disk'
      ]_vars

\* the same, for deleted chats that did not carry the default chat name
C38_OtherNamePersisted ==
    [][(OpStep("deleteChat") /\ Len(m_chats) = 1
          /\ lastOp'.name \in DOMAIN m_chatNameToIndex
          /\ lastOp'.name # DEFAULT_CHAT_NAME
          /\ lastOp'.ok
          /\ \A i \in DOMAIN lastOp'.calls : lastOp'.calls[i].ok) =>
         /\ ChatNames(m_chats') = {DEFAULT_CHAT_NAME}
         /\ DEFAULT_CHAT_NAME \in disk'
      ]_vars


\* at least two calls, all carrying one span that lies within the text
ShareOneSpan(text, toolCalls) ==
    /\ Len(toolCalls) >= 2
    /\ \A i \in DOMAIN toolCalls :
         /\ toolCalls[i].start_index = toolCalls[1].start_index
         /\ toolCalls[i].end_index = toolCalls[1].end_index
    /\ toolCalls[1].start_index >= 0
    /\ toolCalls[1].start_index <= toolCalls[1].end_index
    /\ toolCalls[1].end_index < Len(text)

\* result is text with nothing but the span [start, end] replaced: it begins
\* with the characters before the span and ends with those after it
OutsideKept(text, result, start, end) ==
    LET after == Len(text) - end - 1
    IN /\ Len(result) >= start + after
       /\ SubSeq(result, 1, start) = SubSeq(text, 1, start)
       /\ SubSeq(result, Len(result) - after + 1, Len(result)) =
            SubSeq(text, end + 2, Len(text))

\* C39: when several calls share one source span, as the calls of one bracket
\* block do, replaceToolCallsWithResults keeps every character of the text
\* outside that span unchanged: no text outside the original span is replaced.
C39_SharedSpanKeepsOutside ==
    [][ToolStep("replaceToolCallsWithResults") =>
         LET text == lastTool'.arg.text
             toolCalls == lastTool'.arg.toolCalls
         IN ShareOneSpan(text, toolCalls) =>
              OutsideKept(text, lastTool'.ret.text,
                          toolCalls[1].start_index, toolCalls[1].end_index)
      ]_vars

\* the same, for shared spans whose first replacement is at least as long as
\* the span
C39_LongOutputsKeepOutside ==
    [][ToolStep("replaceToolCallsWithResults") =>
         LET text == lastTool'.arg.text
             toolCalls == lastTool'.arg.toolCalls
             agent == lastTool'.arg.agent
         IN (/\ ShareOneSpan(text, toolCalls)
             /\ \A i \in DOMAIN toolCalls :
                  Len(Rendering(toolCalls[i], agent)) >=
                    toolCalls[1].end_index - toolCalls[1].start_index + 1) =>
              OutsideKept(text, lastTool'.ret.text,
                          toolCalls[1].start_index, toolCalls[1].end_index)
      ]_vars


=============================================================================
